---- MODULE Spec2Model ----
(***************************************************************************)
(* A model of the browser agent's session bookkeeping (session.ts), the    *)
(* event emitter (events.ts) and the frustration detectors (rage-click.ts, *)
(* the thrashing detector, dead-click.ts, the form tracker).               *)
(*                                                                         *)
(* Date.now() is the variable `now`; it only moves forward (Tick).         *)
(* Callbacks handed to the detectors (onRageClick, onThrashing, ...) are   *)
(* modelled as appending the event to a log: rageSignals, thrashSignals,   *)
(* deadSignals, fieldEvents, formEvents.                                   *)
(* Scores are rationals, kept as [num, den] with den > 0.                  *)
(* A page runs the session alone (Spec) or one detector (RageSpec,         *)
(* ThrashSpec, DeadSpec, FormSpec; FrustrationSpec is any one of them).    *)
(***************************************************************************)
EXTENDS Integers, Sequences, FiniteSets, TLC

VARIABLES
    now,             \* Date.now()
    \* ---- session.ts / events.ts
    currentSession,  \* module-level `currentSession` (live = FALSE is null)
    storage,         \* sessionStorage[SESSION_STORAGE_KEY]
    nextUuid,        \* the next value generateUUID() returns
    lastRecord,      \* the log record logger.emit accepted last
    \* ---- history of the session calls
    issued,          \* the [id, seq] pairs getNextSequence() has returned
    reused,          \* a getNextSequence() call returned a pair issued before
    lastSeq,         \* what the last getNextSequence() call returned
    instCalls,       \* getNextSequence() calls made on the in-memory session
    persisted,       \* what became of the last persistSession() call of this page
    identity,        \* the id of the user the session was last given: by the last
                     \* setUser() since a clearUser() or resetSession(), or by
                     \* the stored record it was loaded from
    instFresh,       \* the in-memory session was created, not loaded
    lastTaken,       \* the id and sequence emitSessionEvent took for lastRecord
    lost,            \* the ids and sequences taken for records whose emit threw
    \* ---- rage-click.ts
    rageConfig,      \* RageClickDetector.config
    clicksByElement, \* RageClickDetector.clicksByElement
    rageSignals,     \* the events handed to onRageClick since the last reset()
    \* ---- history of the rage click detector since the last reset()
    clickHist,       \* per element key: the time of every recordClick
    signalClick,     \* per event of rageSignals: its key and its click's index
    rageClicks,      \* recordClick calls made in all
    cleaned,         \* per element key whose list a cleanup() shortened since the
                     \* last reset(): the clicks made on it before that cleanup()
    \* ---- the thrashing detector
    thrashConfig,    \* ThrashingDetector.config (0: the option is not given)
    scrollY,         \* win.scrollY
    thrashEnabled,   \* ThrashingDetector.enabled
    scrollRecords,   \* ThrashingDetector.scrollRecords
    lastPosition,    \* ThrashingDetector.lastPosition
    lastDirection,   \* ThrashingDetector.lastDirection ("none" is null)
    totalDistance,   \* ThrashingDetector.totalDistance
    thrashSignals,   \* the events handed to onThrashing since the last enable()
    \* ---- history of the thrashing detector since the last enable()
    reversals,       \* the time of every scroll that reversed the one before
    prevMove,        \* the direction of the last scroll that moved
    signalReversal,  \* per event of thrashSignals: the index of its reversal
    lastScrollSignalled, \* the last recordScroll call emitted an event
    scrollCalls,     \* recordScroll calls that saw movement, in all
    \* ---- dead-click.ts
    deadConfig,      \* DeadClickDetector.config
    deadSignals,     \* the events handed to onDeadClick
    lastDeadClick,   \* the element, options and outcome of the last recordClick
    \* ---- the form tracker
    formOption,      \* the hesitationThresholdMs option the constructor was given
    formConfig,      \* FormTracker.config
    fieldStates,     \* FormTracker.fieldStates (focusTime -1 is null)
    totalFormTime,   \* FormTracker.totalFormTime
    fieldEvents,     \* the events handed to onFieldEvent since the last reset()
    formEvents,      \* the events handed to onFormEvent since the last focus or blur
    focusCalls,      \* recordFieldFocus calls made in all
    \* ---- history of the form tracker since the last reset()
    openFocus,       \* per field key: the time of its focus that no blur has closed
    eventFocus,      \* per event of fieldEvents: the time of the focus it closed
    focusedKeys,     \* the field keys recordFieldFocus was called on
    focusLog,        \* the recordFieldFocus calls per field key since the last reset,
                     \* and their number when each field event was emitted
    formCalls,       \* submit and abandon calls since the last focus or blur
    lastBlur,        \* the last call was a blur: of an "open" or a "closed" field
    \* ---- calculateScore of the rage click detector, called on its own
    scoreInput,      \* the click count and the duration it is called with
    scored,          \* what it returned
    \* ---- getElementId of the rage click detector, called on its own
    keyInput,        \* the two elements it is called with
    keyed,           \* the two keys it returned
    \* ---- the navigation tracker
    navEnabled,      \* NavigationTracker.enabled; the popstate and beforeunload
                     \* listeners are on the window exactly while it is true
    currentUrl,      \* NavigationTracker.currentUrl
    currentTitle,    \* NavigationTracker.currentTitle
    pageStartTime,   \* NavigationTracker.pageStartTime
    location,        \* win.location.href
    navEvents,       \* the events handed to onNavigation
    \* ---- the listeners of the detectors
    listeners,       \* the event listeners on document and window
    rageEnabled,     \* RageClickDetector.enabled
    clickHandler,    \* RageClickDetector.clickHandler (0 is null)
    deadEnabled,     \* DeadClickDetector.enabled
    deadHandler,     \* DeadClickDetector.clickHandler (0 is null)
    scrollHandler,   \* ThrashingDetector.scrollHandler (0 is null)
    \* ---- history of the enable() and disable() calls
    toggles,         \* the last call, the last call that was due to change
                     \* the detector, and the number of calls
    dispatch,        \* the interface event being dispatched: the handlers still
                     \* to call, and the handlers called (-1: no event yet)
    \* ---- the page
    installed        \* the detector the page runs

sessionVars == <<currentSession, storage, nextUuid, lastRecord, issued, reused,
                 lastSeq, instCalls, persisted, instFresh, identity, lastTaken, lost>>

rageVars == <<rageConfig, clicksByElement, rageSignals, clickHist, signalClick,
              rageClicks, cleaned>>

thrashVars == <<thrashConfig, scrollY, thrashEnabled, scrollRecords, lastPosition,
                lastDirection, totalDistance, thrashSignals, reversals, prevMove,
                signalReversal, lastScrollSignalled, scrollCalls>>

deadVars == <<deadConfig, deadSignals, lastDeadClick>>

formVars == <<formOption, formConfig, fieldStates, totalFormTime, fieldEvents, formEvents,
              focusCalls, openFocus, eventFocus, focusedKeys, focusLog, formCalls,
              lastBlur>>

scoreVars == <<scoreInput, scored, keyInput, keyed>>

navVars == <<navEnabled, currentUrl, currentTitle, pageStartTime, location, navEvents>>

\* the detectors' variables, and those of the detectors besides one
rageListener == <<rageEnabled, clickHandler>>
deadListener == <<deadEnabled, deadHandler>>
thrashListener == <<scrollHandler, listeners>>
toggleHistory == <<toggles, dispatch>>
listenerVars == <<listeners, rageListener, deadListener, scrollHandler, toggleHistory>>

detectorVars == <<rageVars, thrashVars, deadVars, formVars, scoreVars, navVars, listenerVars, installed>>
besidesRage == <<thrashVars, deadVars, formVars, scoreVars, navVars, listenerVars, installed>>
besidesThrashing == <<rageVars, deadVars, formVars, scoreVars, navVars, rageListener, deadListener,
                      toggleHistory, installed>>
besidesDeadClick == <<rageVars, thrashVars, formVars, scoreVars, navVars, listenerVars, installed>>
besidesForm == <<rageVars, thrashVars, deadVars, scoreVars, navVars, listenerVars, installed>>

vars == <<now, sessionVars, detectorVars>>

----------------------------------------------------------------------------
(* Bounds of the model *)

MaxUuid == 2        \* generateUUID() returns ids up to MaxUuid
MaxSequence == 2    \* getNextSequence() is not called at a sequence beyond this
MaxClicks == 6      \* RageClickDetector.recordClick calls in one behaviour
MaxRageTicks == 4   \* clock steps while the rage click detector runs
MaxScrolls == 5     \* recordScroll calls that see movement in one behaviour
MaxScrollY == 2     \* the scroll positions are 0..MaxScrollY
MaxThrashTicks == 2  \* clock steps while the thrashing detector runs
MaxDeadClicks == 2   \* DeadClickDetector.recordClick calls in one behaviour
MaxScoreClicks == 12  \* click counts calculateScore is called with
MaxScoreDuration == 1000   \* durations (ms) calculateScore is called with
MaxNavEvents == 4    \* NavigationTracker events in one behaviour
MaxNavTicks == 3     \* clock steps while the navigation tracker runs
MaxToggles == 4      \* enable() and disable() calls in one behaviour of the listeners
MaxFocus == 6        \* FormTracker.recordFieldFocus calls in one behaviour
MaxFormEvents == 1   \* submit and abandon calls in a row
MaxFormTicks == 2    \* clock steps while the form tracker runs
MaxFieldEvents == 2  \* field events between two resets
FormTick == 20000    \* the length of a clock step while the form tracker runs

----------------------------------------------------------------------------
(* session.ts *)

Undefined == "<undefined>"

\* a session id that an earlier page lifetime left in sessionStorage
StoredId == 1

OptionalFields == {"userId", "userEmail", "userName"}

NoSession ==
    [live |-> FALSE, id |-> 0, sequence |-> 0, startedAt |-> 0,
     userId |-> Undefined, userEmail |-> Undefined, userName |-> Undefined]

\* JSON values whose type the loader tests
JsonNumber(n) == [t |-> "number", v |-> n]
JsonString(n) == [t |-> "string", v |-> n]

EmptyDoc == [k \in {} |-> 0]
AbsentItem == [kind |-> "absent", doc |-> EmptyDoc]
GarbageItem == [kind |-> "garbage", doc |-> EmptyDoc]

\* What sessionStorage does during one call: "ok"; "readonly", setItem throws
\* (quota exceeded); "none", there is no usable sessionStorage (undefined, or
\* getItem and setItem both throw)
StorageModes == {"ok", "readonly", "none"}

\* JSON.stringify(session): properties whose value is undefined are dropped
Stringify(session) ==
    [kind |-> "json",
     doc |-> [k \in {"id", "sequence", "startedAt"}
                    \cup {f \in OptionalFields : session[f] # Undefined} |->
                IF k = "sequence" THEN JsonNumber(session.sequence)
                ELSE session[k]]]

\* JSON.parse(stored) as SessionData: a property the text lacks reads undefined
ParseOptional(doc, f) == IF f \in DOMAIN doc THEN doc[f] ELSE Undefined

\* a loader that keeps the id and starts the counter again
ParsedFromZero(doc) ==
    [live |-> TRUE,
     id |-> doc.id,
     sequence |-> 0,
     startedAt |-> IF "startedAt" \in DOMAIN doc THEN doc.startedAt ELSE 0,
     userId |-> ParseOptional(doc, "userId"),
     userEmail |-> ParseOptional(doc, "userEmail"),
     userName |-> ParseOptional(doc, "userName")]

Parse(doc) ==
    [live |-> TRUE,
     id |-> doc.id,
     sequence |-> doc.sequence.v,
     startedAt |-> IF "startedAt" \in DOMAIN doc THEN doc.startedAt ELSE 0,
     userId |-> ParseOptional(doc, "userId"),
     userEmail |-> ParseOptional(doc, "userEmail"),
     userName |-> ParseOptional(doc, "userName")]

\* a validation that does not test the type of the sequence
IdAndSequencePresent(item) ==
    /\ item.kind = "json"
    /\ "id" \in DOMAIN item.doc
    /\ item.doc.id # 0
    /\ "sequence" \in DOMAIN item.doc

\* parsed.id && typeof parsed.sequence === 'number'
ValidStored(item) ==
    /\ item.kind = "json"
    /\ "id" \in DOMAIN item.doc
    /\ item.doc.id # 0
    /\ "sequence" \in DOMAIN item.doc
    /\ item.doc.sequence.t = "number"

\* a new id on the session as it is
NewIdOnly(uuid) == [currentSession EXCEPT !.live = TRUE, !.id = uuid]

NewSession(uuid) ==
    [live |-> TRUE, id |-> uuid, sequence |-> 0, startedAt |-> now,
     userId |-> Undefined, userEmail |-> Undefined, userName |-> Undefined]

\* loadOrCreateSession(): the stored record when readable and valid, else new
LoadsStored(mode) == mode # "none" /\ ValidStored(storage)

LoadOrCreateSession(mode) ==
    IF LoadsStored(mode) THEN Parse(storage.doc) ELSE NewSession(nextUuid)

\* persistSession(session): the item after the call; a throwing setItem is
\* swallowed and leaves the item as it was
PersistSession(session, item, mode) ==
    IF mode = "ok" THEN Stringify(session) ELSE item

\* getSession(): the session every lastRecord function works on
SessionLoaded == currentSession.live

\* a getSession() that reads the stored record on every call
AlwaysLoads(mode) == LoadOrCreateSession(mode)

GetSession(mode) ==
    IF SessionLoaded THEN currentSession ELSE LoadOrCreateSession(mode)

\* what getSession() leaves behind when it had to load or create
StorageAfterGet(mode) ==
    IF SessionLoaded THEN storage
    ELSE PersistSession(LoadOrCreateSession(mode), storage, mode)

UuidAfterGet(mode) ==
    IF SessionLoaded \/ LoadsStored(mode) THEN nextUuid ELSE nextUuid + 1

CanGetSession(mode) == SessionLoaded \/ LoadsStored(mode) \/ nextUuid <= MaxUuid

FreshAfterGet(mode) == IF SessionLoaded THEN instFresh ELSE ~LoadsStored(mode)

CallsAfterGet == IF SessionLoaded THEN instCalls ELSE 0

\* the outcome of a persistSession() call: setItem returned, or it threw (or
\* sessionStorage is missing) and nothing was written
Written(mode) == IF mode = "ok" THEN "written" ELSE "swallowed"

\* the user id a session that is loaded or created starts with
IdentityAfterGet(mode) ==
    IF SessionLoaded THEN identity ELSE LoadOrCreateSession(mode).userId

WrittenAfterGet(mode) == IF SessionLoaded THEN persisted ELSE Written(mode)

\* the storage modes a call can tell apart: with the session in memory the
\* storage is only written, and a missing sessionStorage does what a throwing
\* setItem does
StorageOutcomes == IF SessionLoaded THEN {"ok", "readonly"} ELSE StorageModes

----------------------------------------------------------------------------
(* The calls the model makes *)

\* setUser() arguments; the stored session of InitialStorage has another user
Users ==
    { [id |-> "u2", email |-> "u2@example.com", name |-> Undefined],
      [id |-> "", email |-> Undefined, name |-> Undefined] }

\* options.attributes of emitSessionEvent: `vals` holds the properties and
\* `dropped` names those whose value is undefined, null or not a primitive
CallerAttributes ==
    { [vals |-> ("event.category" :> "user.interaction") @@ ("target.id" :> Undefined),
       dropped |-> {"target.id"}],
      [vals |-> ("session.id" :> StoredId) @@ ("session.sequence" :> 0)
                    @@ ("user.id" :> "caller"),
       dropped |-> {}] }

\* what an earlier page lifetime, or anything else, left under the storage key
InitialStorage ==
    { AbsentItem,
      GarbageItem,
      [kind |-> "json", doc |-> [sequence |-> JsonNumber(1), startedAt |-> 0]],
      [kind |-> "json",
       doc |-> [id |-> StoredId, sequence |-> JsonString(1), startedAt |-> 0]],
      [kind |-> "json",
       doc |-> [id |-> StoredId, sequence |-> JsonNumber(1), startedAt |-> 0,
                userId |-> "u1"]] }

----------------------------------------------------------------------------
(* session.ts: the lastRecord functions *)

\* the part of every lastRecord function that is getSession()
EnsureSession(mode) ==
    /\ CanGetSession(mode)
    /\ currentSession' = GetSession(mode)
    /\ storage' = StorageAfterGet(mode)
    /\ nextUuid' = UuidAfterGet(mode)
    /\ instFresh' = FreshAfterGet(mode)
    /\ identity' = IdentityAfterGet(mode)
    /\ instCalls' = CallsAfterGet
    /\ persisted' = WrittenAfterGet(mode)

getSessionId ==
    /\ \E mode \in StorageOutcomes : EnsureSession(mode)
    /\ UNCHANGED <<now, lastRecord, issued, reused, lastSeq, lastTaken, lost, detectorVars>>

getSessionDuration ==
    /\ \E mode \in StorageOutcomes : EnsureSession(mode)
    /\ UNCHANGED <<now, lastRecord, issued, reused, lastSeq, lastTaken, lost, detectorVars>>

\* the pair a getNextSequence() call on this session returns
SeqEntry(session) == [id |-> session.id, seq |-> session.sequence]

\* the history of getNextSequence() after a call on this session
Issue(session) ==
    /\ issued' = issued \cup {SeqEntry(session)}
    /\ reused' = (reused \/ SeqEntry(session) \in issued)
    /\ lastSeq' = session.sequence

\* a counter that is read and not advanced
NotIncremented(session) == session

\* session.sequence++
Increment(session) == [session EXCEPT !.sequence = session.sequence + 1]

\* getNextSequence() under one storage mode
NextSequence(mode) ==
    /\ CanGetSession(mode)
    /\ currentSession' = Increment(GetSession(mode))
    /\ storage' = PersistSession(Increment(GetSession(mode)),
                                 StorageAfterGet(mode), mode)
    /\ Issue(GetSession(mode))
    /\ nextUuid' = UuidAfterGet(mode)
    /\ instFresh' = FreshAfterGet(mode)
    /\ identity' = IdentityAfterGet(mode)
    /\ instCalls' = CallsAfterGet + 1
    /\ persisted' = Written(mode)

getNextSequence ==
    /\ \E mode \in StorageOutcomes :
        /\ GetSession(mode).sequence < MaxSequence
        /\ NextSequence(mode)
    /\ UNCHANGED <<now, lastRecord, lastTaken, lost, detectorVars>>

resetSession ==
    /\ nextUuid <= MaxUuid
    /\ currentSession' = NewSession(nextUuid)
    /\ \E mode \in StorageOutcomes :
        /\ storage' = PersistSession(NewSession(nextUuid), storage, mode)
        /\ persisted' = Written(mode)
    /\ nextUuid' = nextUuid + 1
    /\ instFresh' = TRUE
    /\ identity' = Undefined
    /\ instCalls' = 0
    /\ UNCHANGED <<now, lastRecord, issued, reused, lastSeq, lastTaken, lost, detectorVars>>

\* a setUser() that starts the counter again
UserOnRestartedCounter(session, user) ==
    [session EXCEPT !.userId = user.id, !.userEmail = user.email,
                    !.userName = user.name, !.sequence = 0]

WithUser(session, user) ==
    [session EXCEPT !.userId = user.id, !.userEmail = user.email,
                    !.userName = user.name]

WithoutUser(session) ==
    [session EXCEPT !.userId = Undefined, !.userEmail = Undefined,
                    !.userName = Undefined]

setUser(user) ==
    /\ \E mode \in StorageOutcomes :
        /\ CanGetSession(mode)
        /\ currentSession' = WithUser(GetSession(mode), user)
        /\ storage' = PersistSession(WithUser(GetSession(mode), user),
                                     StorageAfterGet(mode), mode)
        /\ nextUuid' = UuidAfterGet(mode)
        /\ instFresh' = FreshAfterGet(mode)
        /\ identity' = user.id
        /\ instCalls' = CallsAfterGet
        /\ persisted' = Written(mode)
    /\ UNCHANGED <<now, lastRecord, issued, reused, lastSeq, lastTaken, lost, detectorVars>>

clearUser ==
    /\ \E mode \in StorageOutcomes :
        /\ CanGetSession(mode)
        /\ currentSession' = WithoutUser(GetSession(mode))
        /\ storage' = PersistSession(WithoutUser(GetSession(mode)),
                                     StorageAfterGet(mode), mode)
        /\ nextUuid' = UuidAfterGet(mode)
        /\ instFresh' = FreshAfterGet(mode)
        /\ identity' = Undefined
        /\ instCalls' = CallsAfterGet
        /\ persisted' = Written(mode)
    /\ UNCHANGED <<now, lastRecord, issued, reused, lastSeq, lastTaken, lost, detectorVars>>

\* getUser(): null unless userId is set and non-empty
HasUser(session) == session.userId # Undefined /\ session.userId # ""

----------------------------------------------------------------------------
(* events.ts *)

PageUrl == "https://app.example/checkout"
PageTitle == "Checkout"

\* filterUndefined(obj)
filterUndefined(obj) ==
    [k \in DOMAIN obj.vals \ obj.dropped |-> obj.vals[k]]

\* the session context the record starts from
SessionContext(session) ==
    ("session.id" :> session.id)
        @@ ("session.sequence" :> session.sequence)
        @@ ("session.duration_ms" :> now - session.startedAt)
        @@ ("page.url" :> PageUrl)
        @@ ("page.title" :> PageTitle)

\* the object literal: the spread of the caller's attributes comes last, so
\* a caller's property replaces the session context's property of that name
SpreadAttributes(session, attributes) ==
    filterUndefined(attributes) @@ SessionContext(session)

\* attributes['user.id'] = ... assigned after the literal is built
UserAttributes(session) ==
    IF ~HasUser(session) THEN EmptyDoc
    ELSE ("user.id" :> session.userId)
        @@ (IF session.userEmail # Undefined /\ session.userEmail # ""
            THEN ("user.email" :> session.userEmail) ELSE EmptyDoc)
        @@ (IF session.userName # Undefined /\ session.userName # ""
            THEN ("user.name" :> session.userName) ELSE EmptyDoc)

\* a record in which the caller's attributes replace the user's
CallerOverUser(name, session, attributes) ==
    [body |-> name,
     attributes |-> filterUndefined(attributes) @@ UserAttributes(session)
                        @@ SessionContext(session)]

LogRecord(name, session, attributes) ==
    [body |-> name,
     attributes |-> UserAttributes(session) @@ SpreadAttributes(session, attributes)]

NoRecord == [body |-> "", attributes |-> EmptyDoc]

\* logger.emit(logRecord): a throw is caught and the record is lost
LoggerEmit(logRecord, entry, delivered) ==
    /\ lastRecord' = IF delivered THEN logRecord ELSE lastRecord
    /\ lastTaken' = IF delivered THEN entry ELSE lastTaken
    /\ lost' = IF delivered THEN lost ELSE lost \cup {entry}

\* emitSessionEvent(options): getSessionId(), getNextSequence(),
\* getSessionDuration(), getUser(), then logger.emit
emitSessionEvent(name, attributes, mode, delivered) ==
    /\ NextSequence(mode)
    /\ LoggerEmit(LogRecord(name, GetSession(mode), attributes),
                  SeqEntry(GetSession(mode)), delivered)

EmitEvent ==
    /\ \E attributes \in CallerAttributes, mode \in StorageOutcomes, delivered \in BOOLEAN :
        /\ GetSession(mode).sequence < MaxSequence
        /\ emitSessionEvent("user.click", attributes, mode, delivered)
    /\ UNCHANGED <<now, detectorVars>>

\* emitFrustrationEvent(type, score, attributes); the detectors run with a
\* working sessionStorage and exporter
emitFrustrationEvent(type, score, attributes) ==
    emitSessionEvent(type,
        [vals |-> attributes
                    @@ ("event.category" :> "user.frustration")
                    @@ ("event.action" :> type)
                    @@ ("frustration.type" :> type)
                    @@ ("frustration.score" :> score),
         dropped |-> {}],
        "ok", TRUE)

----------------------------------------------------------------------------
(* The environment of the session *)

\* the page is reloaded: the module is evaluated again, sessionStorage stays
Reload ==
    /\ SessionLoaded
    /\ currentSession' = NoSession
    /\ instCalls' = 0
    /\ persisted' = "none"
    /\ instFresh' = FALSE
    /\ identity' = Undefined
    /\ UNCHANGED <<now, storage, nextUuid, lastRecord, issued, reused, lastSeq,
                   lastTaken, lost, detectorVars>>

----------------------------------------------------------------------------
(* The session when the page starts *)

SessionInit ==
    /\ currentSession = NoSession
    /\ storage \in InitialStorage
    /\ nextUuid = StoredId + 1
    /\ lastRecord = NoRecord
    /\ issued = {}
    /\ reused = FALSE
    /\ lastSeq = -1
    /\ instCalls = 0
    /\ persisted = "none"
    /\ instFresh = FALSE
    /\ identity = Undefined
    /\ lastTaken = [id |-> 0, seq |-> 0]
    /\ lost = {}

\* a page that has not touched the session yet and has nothing stored
SessionIdle ==
    /\ currentSession = NoSession
    /\ storage = AbsentItem
    /\ nextUuid = StoredId + 1
    /\ lastRecord = NoRecord
    /\ issued = {}
    /\ reused = FALSE
    /\ lastSeq = -1
    /\ instCalls = 0
    /\ persisted = "none"
    /\ instFresh = FALSE
    /\ identity = Undefined
    /\ lastTaken = [id |-> 0, seq |-> 0]
    /\ lost = {}

----------------------------------------------------------------------------
(* Date.now() moves forward *)

Tick(step, limit) ==
    /\ now + step <= limit
    /\ now' = now + step

----------------------------------------------------------------------------
(* The event listeners of document and window *)

\* addEventListener(type, handler, options): a listener with the same type,
\* callback and capture flag is registered once
AddEventListener(type, handler, capture) ==
    listeners \cup {[type |-> type, handler |-> handler, capture |-> capture]}

\* removeEventListener(type, handler, options)
RemoveEventListener(type, handler, capture) ==
    listeners \ {[type |-> type, handler |-> handler, capture |-> capture]}

\* the function object enable() creates: one that is not registered yet
NewHandler ==
    CHOOSE handler \in 1..(Cardinality(listeners) + 1) :
        \A listener \in listeners : listener.handler # handler

\* an enable() that never finds the detector enabled
NeverEnabled(enabled) == FALSE

\* if (this.enabled) return, in enable()
AlreadyEnabled(enabled) == enabled

----------------------------------------------------------------------------
(* rage-click.ts *)

Min(a, b) == IF a <= b THEN a ELSE b
Max(a, b) == IF a >= b THEN a ELSE b

\* Strings that are taken apart or put together are kept as their pieces:
\* an id or element key is the sequence of its '.'-separated parts, a
\* className the sequence of its ' '-separated parts (an empty part for a
\* repeated space).
Elements ==
    { [ref |-> "submit", id |-> <<"btn-1">>, tagName |-> "BUTTON",
       className |-> <<"primary">>],
      [ref |-> "card", id |-> <<>>, tagName |-> "DIV",
       className |-> <<"card", "", "wide">>],
      [ref |-> "nextCard", id |-> <<>>, tagName |-> "DIV",
       className |-> <<"card", "wide">>] }

\* The elements getElementId is called with on its own: those above, and
\* elements whose id reads like the key of an element without id ("div",
\* "div.card.wide"), a second element with the id btn-1, and elements that
\* differ from the cards in the tag or in the order of the classes.
KeyElements ==
    Elements \cup
    { [ref |-> "banner", id |-> <<"div", "card", "wide">>, tagName |-> "SPAN",
       className |-> <<>>],
      [ref |-> "plainDiv", id |-> <<>>, tagName |-> "DIV", className |-> <<>>],
      [ref |-> "named", id |-> <<"div">>, tagName |-> "BUTTON", className |-> <<>>],
      [ref |-> "twin", id |-> <<"btn-1">>, tagName |-> "DIV", className |-> <<"x">>],
      [ref |-> "link", id |-> <<>>, tagName |-> "A", className |-> <<"card", "wide">>],
      [ref |-> "swapped", id |-> <<>>, tagName |-> "DIV",
       className |-> <<"wide", "card">>],
      [ref |-> "plainSpan", id |-> <<>>, tagName |-> "SPAN", className |-> <<>>] }

\* tagName.toLowerCase()
ToLowerCase(tag) ==
    CASE tag = "BUTTON" -> "button"
      [] tag = "DIV" -> "div"
      [] tag = "A" -> "a"
      [] tag = "INPUT" -> "input"
      [] tag = "SPAN" -> "span"
      [] OTHER -> tag

\* className.split(' ').filter(Boolean)
FilterBoolean(parts) == SelectSeq(parts, LAMBDA part : part # "")

\* getElementId(element): the id, else tag and classes joined by '.'
getElementId(element) ==
    IF element.id # <<>> THEN element.id
    ELSE <<ToLowerCase(element.tagName)>> \o FilterBoolean(element.className)

RageKeys == {getElementId(element) : element \in Elements}

\* getElementId(element) called with the two elements of keyInput
KeyCall ==
    /\ keyed = <<>>
    /\ keyed' = <<getElementId(keyInput[1]), getElementId(keyInput[2])>>
    /\ UNCHANGED <<now, sessionVars, rageVars, thrashVars, deadVars, formVars, scoreInput,
                   scored, keyInput, navVars, listenerVars, installed>>

RAGE_CLICK_THRESHOLD == 3
RAGE_TIME_WINDOW_MS == 1000

\* the constructor's config: the defaults, and two custom settings
RageConfigs ==
    { [clickThreshold |-> RAGE_CLICK_THRESHOLD, timeWindowMs |-> RAGE_TIME_WINDOW_MS,
       emitLogs |-> TRUE],
      [clickThreshold |-> 2, timeWindowMs |-> 500, emitLogs |-> FALSE],
      [clickThreshold |-> 1, timeWindowMs |-> RAGE_TIME_WINDOW_MS, emitLogs |-> FALSE] }

\* The code computes in doubles, in which 0.4 and 0.6 are not exact. Where
\* 100 * (0.4 countScore + 0.6 velocityScore) is exactly a half in the reals,
\* the double can lie below the half and Math.round then rounds down. These
\* are the calls with clickCount <= 20 and durationMs <= 10000 for which it
\* does; for 5 clicks in 800 ms: 0.5 * 0.4 = 0.2, 0.625 * 0.6 =
\* 0.37499999999999994, and the sum times 100 is 57.49999999999999.
BelowTheHalf ==
    { <<3, 4000>>, <<3, 7200>>, <<5, 800>>, <<6, 8000>>, <<7, 2400>>, <<7, 4000>> }

\* calculateScore(clickCount, durationMs), in hundredths:
\*   countScore = min(clickCount / 10, 1)
\*   velocityScore = min(clickCount / durationMs * 1000 / 10, 1), 1 if durationMs <= 0
\*   round(clamp(0.4 countScore + 0.6 velocityScore) * 100) / 100
\* done in exact arithmetic, and rounded as the double is rounded
calculateScore(clickCount, durationMs) ==
    LET countTenths == Min(clickCount, 10)
        velDen == IF durationMs > 0 THEN durationMs ELSE 1
        velNum == IF durationMs > 0 THEN Min(100 * clickCount, durationMs) ELSE 1
        \* combined * 100, over velDen
        combined == 4 * countTenths * velDen + 60 * velNum
        clamped == Min(Max(combined, 0), 100 * velDen)
        halfUp == (2 * clamped + velDen) \div (2 * velDen)
    IN [num |-> IF <<clickCount, durationMs>> \in BelowTheHalf THEN halfUp - 1 ELSE halfUp,
        den |-> 100]

\* calculateScore(clickCount, durationMs) called with scoreInput
ScoreCall ==
    /\ scored = <<>>
    /\ scored' = <<calculateScore(scoreInput.clickCount, scoreInput.durationMs)>>
    /\ UNCHANGED <<now, sessionVars, rageVars, thrashVars, deadVars, formVars, scoreInput,
                   keyInput, keyed, navVars,
                   listenerVars, installed>>

\* while (clicks.length > 0 && clicks[0].timestamp < cutoff) clicks.shift()
RECURSIVE DropStale(_, _)
DropStale(clicks, cutoff) ==
    IF clicks # <<>> /\ Head(clicks).timestamp < cutoff
    THEN DropStale(Tail(clicks), cutoff)
    ELSE clicks

\* createRageClickEvent(clicks, elementId)
createRageClickEvent(clicks, elementId) ==
    LET firstClick == clicks[1]
        lastClick == clicks[Len(clicks)]
        durationMs == lastClick.timestamp - firstClick.timestamp
    IN [clickCount |-> Len(clicks),
        durationMs |-> durationMs,
        score |-> calculateScore(Len(clicks), durationMs),
        elementId |-> elementId,
        timestamp |-> lastClick.timestamp,
        element |-> lastClick.element]

\* the click list of elementId, created empty when the map has none
ClicksOf(elementId) ==
    IF elementId \in DOMAIN clicksByElement THEN clicksByElement[elementId] ELSE <<>>

\* the list after the push, with nothing removed
ClicksNeverDropped(element) ==
    Append(ClicksOf(getElementId(element)), [timestamp |-> now, element |-> element.ref])

\* the list after the push and the removal of what left the window
ClicksInWindow(element) ==
    DropStale(Append(ClicksOf(getElementId(element)),
                     [timestamp |-> now, element |-> element.ref]),
              now - rageConfig.timeWindowMs)

\* a threshold that is reached one click late
ThresholdExceeded(clicks) == Len(clicks) > rageConfig.clickThreshold

\* clicks.length >= this.config.clickThreshold
ThresholdReached(clicks) == Len(clicks) >= rageConfig.clickThreshold

\* a detection that leaves the list as it is
ClicksKept(clicks) == clicks

\* a detection that keeps the click that set it off
LastClickKept(clicks) == <<clicks[Len(clicks)]>>

\* this.clicksByElement.set(elementId, []) after a detection
ClicksAfterDetection(clicks) == <<>>

\* a map that holds the entry that is set and no other
OnlyEntry(map, elementId, clicks) == [k \in {elementId} |-> clicks]

\* Map.set(elementId, clicks)
MapSet(map, elementId, clicks) ==
    [k \in DOMAIN map \cup {elementId} |-> IF k = elementId THEN clicks ELSE map[k]]

RageAttributes(event, element) ==
    ("frustration.click_count" :> event.clickCount)
        @@ ("frustration.duration_ms" :> event.durationMs)
        @@ ("target.element" :> ToLowerCase(element.tagName))
        @@ (IF element.id # <<>> THEN ("target.id" :> element.id) ELSE EmptyDoc)

\* recordClick(element): what the call does to the detector and the session
recordClickCall(element) ==
    LET elementId == getElementId(element)
        clicks == ClicksInWindow(element)
        event == createRageClickEvent(clicks, elementId)
        index == Len(clickHist[elementId]) + 1
    IN /\ rageClicks < MaxClicks
       /\ rageClicks' = rageClicks + 1
       /\ clickHist' = [clickHist EXCEPT ![elementId] = Append(@, now)]
       /\ IF ThresholdReached(clicks)
          THEN /\ IF rageConfig.emitLogs
                  THEN emitFrustrationEvent("rage_click", event.score,
                                            RageAttributes(event, element))
                  ELSE UNCHANGED sessionVars
               /\ rageSignals' = Append(rageSignals, event)
               /\ signalClick' = Append(signalClick, [key |-> elementId, at |-> index])
               /\ clicksByElement' =
                        MapSet(clicksByElement, elementId, ClicksAfterDetection(clicks))
          ELSE /\ clicksByElement' = MapSet(clicksByElement, elementId, clicks)
               /\ UNCHANGED <<sessionVars, rageSignals, signalClick>>
       /\ UNCHANGED <<rageConfig, cleaned>>

\* recordClick(element)
recordClick(element) ==
    /\ recordClickCall(element)
    /\ UNCHANGED <<now, besidesRage>>

RecordClick == \E element \in Elements : recordClick(element)

\* reset()
RageReset ==
    /\ clicksByElement' = EmptyDoc
    /\ rageSignals' = <<>>
    /\ clickHist' = [k \in RageKeys |-> <<>>]
    /\ signalClick' = <<>>
    /\ cleaned' = EmptyDoc
    /\ UNCHANGED <<now, sessionVars, rageConfig, rageClicks, besidesRage>>

\* a cutoff that makes every click made before now a stale one
CutoffAtNow == now

\* const cutoff = now - this.config.timeWindowMs, in cleanup()
CleanupCutoff == now - rageConfig.timeWindowMs

\* a cleanup that deletes no entry
EmptyEntriesKept(map) == map

\* if (clicks.length === 0) this.clicksByElement.delete(elementId)
NonEmptyEntries(map) == [k \in {e \in DOMAIN map : map[e] # <<>>} |-> map[k]]

\* cleanup()
RageCleanup ==
    /\ LET pruned == [k \in DOMAIN clicksByElement |->
                        DropStale(clicksByElement[k], CleanupCutoff)]
           shortened == {k \in DOMAIN pruned : pruned[k] # clicksByElement[k]}
       IN /\ clicksByElement' = NonEmptyEntries(pruned)
          /\ cleaned' = [k \in DOMAIN cleaned \cup shortened |->
                            IF k \in shortened THEN Len(clickHist[k]) ELSE cleaned[k]]
    /\ UNCHANGED <<now, sessionVars, rageConfig, rageSignals, clickHist, signalClick,
                   rageClicks, besidesRage>>

\* enable(); config.document is the page's document
RageEnableCall ==
    IF AlreadyEnabled(rageEnabled)
    THEN UNCHANGED <<rageListener, listeners>>
    ELSE /\ clickHandler' = NewHandler
         /\ listeners' = AddEventListener("click", NewHandler, TRUE)
         /\ rageEnabled' = TRUE

\* disable()
RageDisableCall ==
    IF ~rageEnabled \/ clickHandler = 0
    THEN UNCHANGED <<rageListener, listeners>>
    ELSE /\ listeners' = RemoveEventListener("click", clickHandler, TRUE)
         /\ clickHandler' = 0
         /\ rageEnabled' = FALSE

RageTick == 500

RageClock ==
    /\ Tick(RageTick, MaxRageTicks * RageTick)
    /\ UNCHANGED <<sessionVars, rageVars, besidesRage>>

----------------------------------------------------------------------------
(* The thrashing detector *)

DEFAULT_MIN_DIRECTION_CHANGES == 3
DEFAULT_TIME_WINDOW_MS == 2000

\* the constructor's config: nothing given, and two custom settings
ThrashConfigs ==
    { [minDirectionChanges |-> 0, timeWindowMs |-> 0, emitLogs |-> TRUE],
      [minDirectionChanges |-> 2, timeWindowMs |-> 1000, emitLogs |-> FALSE],
      [minDirectionChanges |-> 1, timeWindowMs |-> 500, emitLogs |-> FALSE] }

DefaultThrashConfig ==
    [minDirectionChanges |-> 0, timeWindowMs |-> 0, emitLogs |-> TRUE]

\* this.config.minDirectionChanges || DEFAULT_MIN_DIRECTION_CHANGES
minChanges ==
    IF thrashConfig.minDirectionChanges # 0 THEN thrashConfig.minDirectionChanges
    ELSE DEFAULT_MIN_DIRECTION_CHANGES

\* this.config.timeWindowMs || DEFAULT_TIME_WINDOW_MS
timeWindow ==
    IF thrashConfig.timeWindowMs # 0 THEN thrashConfig.timeWindowMs
    ELSE DEFAULT_TIME_WINDOW_MS

\* the document: documentElement.scrollHeight and clientHeight
Document == [scrollHeight |-> 3, clientHeight |-> 1]

\* a filter that lets every record through
AllRecords(records) == records

\* records.filter((record) => now - record.timestamp < timeWindow), as
\* recordScroll and checkForThrashing both apply it
recentRecords(records) ==
    SelectSeq(records, LAMBDA record : now - record.timestamp < timeWindow)

\* calculateScrollDepth(), a percentage kept as [num, den]
calculateScrollDepth ==
    LET scrollableHeight == Document.scrollHeight - Document.clientHeight
    IN IF scrollableHeight <= 0 THEN [num |-> 100, den |-> 1]
       ELSE [num |-> Min(100 * scrollableHeight, Max(0, 100 * scrollY)),
             den |-> scrollableHeight]

\* the detector's running state
Detector ==
    [scrollRecords |-> scrollRecords, totalDistance |-> totalDistance,
     lastDirection |-> lastDirection]

\* a reset that clears nothing
NotReset(detector) == detector

\* reset()
ThrashingReset(detector) ==
    [scrollRecords |-> <<>>, totalDistance |-> 0, lastDirection |-> "none"]

\* Math.min(1, recentRecords.length / (minChanges * 2))
ThrashingScore(count) == [num |-> Min(2 * minChanges, count), den |-> 2 * minChanges]

\* the event checkForThrashing builds
ThrashingEvent(recent, detector) ==
    [type |-> "thrashing",
     timestamp |-> now,
     score |-> ThrashingScore(Len(recent)),
     directionChanges |-> Len(recent),
     durationMs |-> IF Len(recent) > 0 THEN now - recent[1].timestamp ELSE 0,
     scrollDistance |-> detector.totalDistance,
     scrollDepthPercent |-> calculateScrollDepth,
     pageUrl |-> PageUrl]

\* Math.round(event.scrollDepthPercent)
RoundedDepth(depth) == (2 * depth.num + depth.den) \div (2 * depth.den)

ThrashingAttributes(event) ==
    ("frustration.direction_changes" :> event.directionChanges)
        @@ ("frustration.duration_ms" :> event.durationMs)
        @@ ("frustration.scroll_distance" :> event.scrollDistance)
        @@ ("frustration.scroll_depth_percent" :> RoundedDepth(event.scrollDepthPercent))

\* a threshold that has to be exceeded
MoreThanMinChanges(detector) == Len(recentRecords(detector.scrollRecords)) > minChanges

\* recentRecords.length >= minChanges
IsThrashing(detector) == Len(recentRecords(detector.scrollRecords)) >= minChanges

\* the detector's state once recordScroll has seen a movement of `delta`:
\* distance added, old records dropped, a direction change recorded
Moved(delta) ==
    LET direction == IF delta < 0 THEN "up" ELSE "down"
        distance == IF delta < 0 THEN -delta ELSE delta
        kept == recentRecords(scrollRecords)
        changed == lastDirection # "none" /\ direction # lastDirection
    IN [scrollRecords |->
            IF changed
            THEN Append(kept, [position |-> scrollY, timestamp |-> now,
                               direction |-> direction])
            ELSE kept,
        totalDistance |-> totalDistance + distance,
        lastDirection |-> lastDirection,
        direction |-> direction,
        changed |-> changed]

\* the history after a movement in `direction`
Observe(direction, signalled) ==
    LET reversed == prevMove # "none" /\ direction # prevMove
    IN /\ prevMove' = direction
       /\ reversals' = IF reversed THEN Append(reversals, now) ELSE reversals
       /\ signalReversal' =
            IF signalled THEN Append(signalReversal, Len(reversals'))
            ELSE signalReversal
       /\ lastScrollSignalled' = signalled
       /\ scrollCalls' = scrollCalls + 1

\* a recordScroll that does not look at the enabled flag
StillIgnored(delta) == delta = 0

\* if (!this.enabled) return; ... if (delta === 0) return
ScrollIgnored(delta) == ~thrashEnabled \/ delta = 0

\* recordScroll(): what the call does to the detector and the session
recordScrollCall ==
    LET delta == scrollY - lastPosition
        moved == Moved(delta)
        detector == [scrollRecords |-> moved.scrollRecords,
                     totalDistance |-> moved.totalDistance,
                     lastDirection |-> moved.lastDirection]
        thrashing == moved.changed /\ IsThrashing(detector)
        event == ThrashingEvent(recentRecords(detector.scrollRecords), detector)
        after == IF thrashing THEN ThrashingReset(detector) ELSE detector
    IN IF ScrollIgnored(delta)
       THEN UNCHANGED <<sessionVars, thrashVars>>
       ELSE /\ scrollCalls < MaxScrolls
            /\ IF thrashing
               THEN /\ IF thrashConfig.emitLogs
                       THEN emitFrustrationEvent("thrashing", event.score,
                                                 ThrashingAttributes(event))
                       ELSE UNCHANGED sessionVars
                    /\ thrashSignals' = Append(thrashSignals, event)
               ELSE UNCHANGED <<sessionVars, thrashSignals>>
            /\ scrollRecords' = after.scrollRecords
            /\ totalDistance' = after.totalDistance
            \* this.lastPosition = currentPosition; this.lastDirection = direction
            /\ lastPosition' = scrollY
            /\ lastDirection' = moved.direction
            /\ Observe(moved.direction, thrashing)
            /\ UNCHANGED <<thrashConfig, scrollY, thrashEnabled>>

\* recordScroll()
recordScroll ==
    /\ recordScrollCall
    /\ UNCHANGED <<now, thrashListener, besidesThrashing>>

\* enable(); what the call does to the detector and the window
ThrashingEnableCall ==
    IF AlreadyEnabled(thrashEnabled)
    THEN UNCHANGED <<thrashVars, thrashListener>>
    ELSE /\ thrashEnabled' = TRUE
         /\ scrollRecords' = ThrashingReset(Detector).scrollRecords
         /\ totalDistance' = ThrashingReset(Detector).totalDistance
         /\ lastDirection' = ThrashingReset(Detector).lastDirection
         /\ lastPosition' = scrollY
         /\ scrollHandler' = NewHandler
         /\ listeners' = AddEventListener("scroll", NewHandler, FALSE)
         /\ thrashSignals' = <<>>
         /\ reversals' = <<>>
         /\ prevMove' = "none"
         /\ signalReversal' = <<>>
         /\ lastScrollSignalled' = FALSE
         /\ UNCHANGED <<thrashConfig, scrollY, scrollCalls>>

\* disable(); what the call does to the detector and the window
ThrashingDisableCall ==
    IF ~thrashEnabled
    THEN UNCHANGED <<thrashVars, thrashListener>>
    ELSE /\ thrashEnabled' = FALSE
         /\ IF scrollHandler # 0
            THEN /\ listeners' = RemoveEventListener("scroll", scrollHandler, FALSE)
                 /\ scrollHandler' = 0
            ELSE UNCHANGED <<listeners, scrollHandler>>
         /\ scrollRecords' = ThrashingReset(Detector).scrollRecords
         /\ totalDistance' = ThrashingReset(Detector).totalDistance
         /\ lastDirection' = ThrashingReset(Detector).lastDirection
         /\ lastScrollSignalled' = FALSE
         /\ UNCHANGED <<thrashConfig, scrollY, lastPosition, thrashSignals, reversals,
                        prevMove, signalReversal, scrollCalls>>

\* enable() on a detector that is not enabled
ThrashingEnable ==
    /\ ~thrashEnabled
    /\ ThrashingEnableCall
    /\ UNCHANGED <<now, sessionVars, besidesThrashing>>

\* disable() on a detector that is enabled
ThrashingDisable ==
    /\ thrashEnabled
    /\ ThrashingDisableCall
    /\ UNCHANGED <<now, sessionVars, besidesThrashing>>

\* the page scrolls to another position
Scroll ==
    /\ \E position \in 0..MaxScrollY :
        /\ position # scrollY
        /\ scrollY' = position
    /\ UNCHANGED <<now, sessionVars, thrashConfig, thrashEnabled, scrollRecords,
                   lastPosition, lastDirection, totalDistance, thrashSignals,
                   reversals, prevMove, signalReversal, lastScrollSignalled,
                   scrollCalls, thrashListener, besidesThrashing>>

ThrashTick == 1000

ThrashClock ==
    /\ Tick(ThrashTick, MaxThrashTicks * ThrashTick)
    /\ UNCHANGED <<sessionVars, detectorVars>>

----------------------------------------------------------------------------
(* semantic/navigation.ts *)

\* the pages of the application, and the document.title of each
Urls == {"https://app.example/", "https://app.example/cart"}

TitleOf(url) == IF url = "https://app.example/" THEN "Shop" ELSE "Cart"

\* the titles a caller passes to recordNavigation
Titles == {"Cart", "Checkout"}

besidesNavigation ==
    <<sessionVars, rageVars, thrashVars, deadVars, formVars, scoreVars, listenerVars,
      installed>>

\* a NavigationEvent; a property that is not set is Undefined, and -1 for
\* durationMs
NavigationEvent(type, toUrl, pageTitle, fromUrl, durationMs) ==
    [type |-> type, timestamp |-> now, toUrl |-> toUrl, pageTitle |-> pageTitle,
     fromUrl |-> fromUrl, referrer |-> Undefined, durationMs |-> durationMs]

\* a navigation after which the page start time is the old one
StartTimeKept(toUrl, pageTitle) ==
    [currentUrl |-> toUrl, currentTitle |-> pageTitle, pageStartTime |-> pageStartTime]

\* this.currentUrl = toUrl; this.currentTitle = pageTitle; this.pageStartTime = now
PageAfterNavigation(toUrl, pageTitle) ==
    [currentUrl |-> toUrl, currentTitle |-> pageTitle, pageStartTime |-> now]

\* recordNavigation(toUrl, pageTitle): what the call does to the tracker
recordNavigationCall(toUrl, pageTitle) ==
    IF ~navEnabled
    THEN UNCHANGED <<navEnabled, currentUrl, currentTitle, pageStartTime, navEvents>>
    ELSE /\ Len(navEvents) < MaxNavEvents
         /\ navEvents' = Append(navEvents,
                NavigationEvent("route_change", toUrl, pageTitle, currentUrl,
                                now - pageStartTime))
         /\ currentUrl' = PageAfterNavigation(toUrl, pageTitle).currentUrl
         /\ currentTitle' = PageAfterNavigation(toUrl, pageTitle).currentTitle
         /\ pageStartTime' = PageAfterNavigation(toUrl, pageTitle).pageStartTime
         /\ UNCHANGED navEnabled

\* recordNavigation(toUrl, pageTitle), called after pushState or replaceState
recordNavigation(toUrl, pageTitle) ==
    /\ recordNavigationCall(toUrl, pageTitle)
    /\ UNCHANGED <<now, location, besidesNavigation>>

RecordNavigation ==
    \E toUrl \in Urls, pageTitle \in Titles : recordNavigation(toUrl, pageTitle)

\* NavigationTracker.enable(); document.referrer is empty
NavigationEnable ==
    /\ IF navEnabled
       THEN UNCHANGED navVars
       ELSE /\ Len(navEvents) < MaxNavEvents
            /\ navEnabled' = TRUE
            /\ currentUrl' = location
            /\ currentTitle' = TitleOf(location)
            /\ pageStartTime' = now
            /\ navEvents' = Append(navEvents,
                    NavigationEvent("page_load", location, TitleOf(location),
                                    Undefined, -1))
            /\ UNCHANGED location
    /\ UNCHANGED <<now, besidesNavigation>>

\* NavigationTracker.disable()
NavigationDisable ==
    /\ navEnabled' = FALSE
    /\ UNCHANGED <<now, currentUrl, currentTitle, pageStartTime, location, navEvents,
                   besidesNavigation>>

\* recordUnload(), also the beforeunload handler
recordUnload ==
    /\ IF ~navEnabled
       THEN UNCHANGED navEvents
       ELSE /\ Len(navEvents) < MaxNavEvents
            /\ navEvents' = Append(navEvents,
                    NavigationEvent("page_unload", currentUrl, currentTitle, Undefined,
                                    now - pageStartTime))
    /\ UNCHANGED <<now, navEnabled, currentUrl, currentTitle, pageStartTime, location,
                   besidesNavigation>>

\* history.pushState or replaceState: the URL changes and no event is fired
PushState ==
    /\ \E url \in Urls \ {location} : location' = url
    /\ UNCHANGED <<now, navEnabled, currentUrl, currentTitle, pageStartTime, navEvents,
                   besidesNavigation>>

\* the user goes back or forward: the URL has changed when popstate fires,
\* and handlePopstate runs if the listener is on the window
Popstate ==
    /\ \E url \in Urls \ {location} :
        /\ location' = url
        /\ IF navEnabled /\ url # currentUrl
           THEN recordNavigationCall(url, TitleOf(url))
           ELSE UNCHANGED <<navEnabled, currentUrl, currentTitle, pageStartTime, navEvents>>
    /\ UNCHANGED <<now, besidesNavigation>>

NavTick == 1000

NavClock ==
    /\ Tick(NavTick, MaxNavTicks * NavTick)
    /\ UNCHANGED <<sessionVars, detectorVars>>

----------------------------------------------------------------------------
(* dead-click.ts *)

\* The elements of the document the clicks land on. `parent` is the ref of
\* parentElement ("none" for null), `role` is "" when there is no role
\* attribute, `handlers` holds the event handler attributes that are present.
DomNodes ==
    { [ref |-> "body", tagName |-> "BODY", id |-> <<>>, text |-> "",
       disabled |-> FALSE, href |-> FALSE, role |-> "", tabindex |-> FALSE,
       handlers |-> {}, parent |-> "none"],
      [ref |-> "panel", tagName |-> "DIV", id |-> <<"panel">>, text |-> "",
       disabled |-> FALSE, href |-> FALSE, role |-> "presentation", tabindex |-> FALSE,
       handlers |-> {}, parent |-> "body"],
      [ref |-> "menu", tagName |-> "DIV", id |-> <<>>, text |-> "",
       disabled |-> FALSE, href |-> FALSE, role |-> "Button", tabindex |-> FALSE,
       handlers |-> {}, parent |-> "body"],
      [ref |-> "label", tagName |-> "SPAN", id |-> <<>>, text |-> "Open",
       disabled |-> FALSE, href |-> FALSE, role |-> "", tabindex |-> FALSE,
       handlers |-> {}, parent |-> "menu"],
      [ref |-> "save", tagName |-> "BUTTON", id |-> <<"save">>, text |-> "Save",
       disabled |-> TRUE, href |-> FALSE, role |-> "", tabindex |-> FALSE,
       handlers |-> {}, parent |-> "panel"],
      [ref |-> "menuSave", tagName |-> "BUTTON", id |-> <<>>, text |-> "Save",
       disabled |-> TRUE, href |-> FALSE, role |-> "", tabindex |-> FALSE,
       handlers |-> {}, parent |-> "menu"],
      [ref |-> "go", tagName |-> "BUTTON", id |-> <<>>, text |-> "Go",
       disabled |-> FALSE, href |-> FALSE, role |-> "", tabindex |-> FALSE,
       handlers |-> {}, parent |-> "panel"],
      [ref |-> "more", tagName |-> "A", id |-> <<>>, text |-> "More",
       disabled |-> FALSE, href |-> FALSE, role |-> "", tabindex |-> FALSE,
       handlers |-> {}, parent |-> "panel"],
      [ref |-> "moreAsButton", tagName |-> "A", id |-> <<>>, text |-> "More",
       disabled |-> FALSE, href |-> FALSE, role |-> "button", tabindex |-> TRUE,
       handlers |-> {"onclick"}, parent |-> "panel"],
      [ref |-> "home", tagName |-> "A", id |-> <<>>, text |-> "Home",
       disabled |-> FALSE, href |-> TRUE, role |-> "", tabindex |-> FALSE,
       handlers |-> {}, parent |-> "panel"],
      [ref |-> "icon", tagName |-> "SPAN", id |-> <<>>, text |-> "",
       disabled |-> FALSE, href |-> FALSE, role |-> "", tabindex |-> FALSE,
       handlers |-> {}, parent |-> "home"],
      [ref |-> "row", tagName |-> "DIV", id |-> <<>>, text |-> "",
       disabled |-> FALSE, href |-> FALSE, role |-> "", tabindex |-> TRUE,
       handlers |-> {}, parent |-> "panel"],
      [ref |-> "tile", tagName |-> "DIV", id |-> <<>>, text |-> "",
       disabled |-> FALSE, href |-> FALSE, role |-> "", tabindex |-> FALSE,
       handlers |-> {"onmouseup"}, parent |-> "panel"],
      [ref |-> "saveIcon", tagName |-> "SPAN", id |-> <<>>, text |-> "",
       disabled |-> FALSE, href |-> FALSE, role |-> "", tabindex |-> FALSE,
       handlers |-> {}, parent |-> "save"],
      [ref |-> "offLink", tagName |-> "A", id |-> <<>>, text |-> "Later",
       disabled |-> TRUE, href |-> FALSE, role |-> "", tabindex |-> FALSE,
       handlers |-> {}, parent |-> "panel"] }

NodeOf(ref) == CHOOSE node \in DomNodes : node.ref = ref

INTERACTIVE_TAGS == {"BUTTON", "INPUT", "SELECT", "TEXTAREA", "SUMMARY", "DETAILS"}

INTERACTIVE_ROLES ==
    {"button", "link", "menuitem", "tab", "checkbox", "radio", "switch", "slider",
     "spinbutton", "combobox", "listbox", "option", "textbox"}

\* role.toLowerCase()
RoleToLowerCase(role) == IF role = "Button" THEN "button" ELSE role

\* element.tagName.toUpperCase(); the DOM reports the tags of the model in
\* upper case already
ToUpperCase(tag) == tag

\* isInteractiveElement(element)
isInteractiveElement(element) ==
    LET tagName == ToUpperCase(element.tagName)
    IN IF element.disabled THEN FALSE
       ELSE IF tagName \in INTERACTIVE_TAGS THEN TRUE
       ELSE IF tagName = "A" THEN element.href
       ELSE IF element.role # "" /\ RoleToLowerCase(element.role) \in INTERACTIVE_ROLES
            THEN TRUE
       ELSE IF element.tabindex THEN TRUE
       ELSE IF element.handlers \cap {"onclick", "onmousedown", "onmouseup"} # {}
            THEN TRUE
       ELSE FALSE

\* a reason that looks at the anchor before the disabled attribute
AnchorBeforeDisabled(element) ==
    IF ToUpperCase(element.tagName) = "A" /\ ~element.href THEN "no_href"
    ELSE IF element.disabled THEN "disabled"
    ELSE "non_interactive"

\* getDeadClickReason(element)
getDeadClickReason(element) ==
    IF element.disabled THEN "disabled"
    ELSE IF ToUpperCase(element.tagName) = "A" /\ ~element.href THEN "no_href"
    ELSE "non_interactive"

\* a loop that stops at the element itself
OnlySelfInteractive(element) == isInteractiveElement(element)

\* the loop of recordClick over the element and its parentElement chain
RECURSIVE SelfOrAncestorInteractive(_)
SelfOrAncestorInteractive(element) ==
    IF isInteractiveElement(element) THEN TRUE
    ELSE IF element.parent = "none" THEN FALSE
    ELSE SelfOrAncestorInteractive(NodeOf(element.parent))

\* a score that looks at the reason before the caller's flag
ReasonBeforeFlag(reason, looksClickable) ==
    IF reason = "disabled" THEN [num |-> 5, den |-> 10]
    ELSE IF reason = "no_href" THEN [num |-> 6, den |-> 10]
    ELSE IF looksClickable THEN [num |-> 7, den |-> 10]
    ELSE [num |-> 3, den |-> 10]

\* the score createDeadClickEvent gives, in tenths
DeadClickScore(reason, looksClickable) ==
    IF looksClickable THEN [num |-> 7, den |-> 10]
    ELSE IF reason = "disabled" THEN [num |-> 5, den |-> 10]
    ELSE IF reason = "no_href" THEN [num |-> 6, den |-> 10]
    ELSE [num |-> 3, den |-> 10]

\* createDeadClickEvent(element, looksClickable); an empty elementId is
\* undefined, looksClickable FALSE is undefined
createDeadClickEvent(element, looksClickable) ==
    LET reason == getDeadClickReason(element)
    IN [element |-> element.ref,
        elementTag |-> ToLowerCase(element.tagName),
        elementId |-> element.id,
        score |-> DeadClickScore(reason, looksClickable),
        reason |-> reason,
        looksClickable |-> looksClickable,
        timestamp |-> now]

\* getSemanticName(element) of semantic/clicks.ts, for elements that have no
\* aria-label: the text, else the tag in angle brackets
getSemanticName(element) ==
    IF element.text # "" THEN element.text
    ELSE "<" \o ToLowerCase(element.tagName) \o ">"

DeadClickAttributes(event, element) ==
    ("target.semantic_name" :> getSemanticName(element))
        @@ ("target.element" :> event.elementTag)
        @@ ("frustration.reason" :> event.reason)
        @@ (IF event.elementId # <<>> THEN ("target.id" :> event.elementId) ELSE EmptyDoc)
        @@ (IF event.looksClickable THEN ("frustration.looks_clickable" :> TRUE)
            ELSE EmptyDoc)

\* the constructor's config: the defaults, and parent traversal or logs off
DeadConfigs ==
    { [emitLogs |-> TRUE, checkParents |-> TRUE],
      [emitLogs |-> FALSE, checkParents |-> TRUE],
      [emitLogs |-> FALSE, checkParents |-> FALSE] }

\* RecordClickOptions; checkParents "omitted" takes the config's value
ClickOptions ==
    [looksClickable : BOOLEAN, checkParents : {"omitted", "on", "off"}]

\* a traversal that is always on
AlwaysCheckParents(options) == TRUE

\* const { checkParents = this.config.checkParents } = options
CheckParents(options) ==
    IF options.checkParents = "omitted" THEN deadConfig.checkParents
    ELSE options.checkParents = "on"

\* DeadClickDetector.recordClick(element, options): what the call does to the
\* detector and the session
deadRecordClickCall(element, options) ==
    LET isInteractive == IF CheckParents(options)
                         THEN SelfOrAncestorInteractive(element)
                         ELSE isInteractiveElement(element)
        event == createDeadClickEvent(element, options.looksClickable)
    IN /\ lastDeadClick' = [element |-> element.ref, options |-> options,
                            dead |-> ~isInteractive, calls |-> lastDeadClick.calls + 1,
                            signalsBefore |-> Len(deadSignals)]
       /\ IF isInteractive
          THEN UNCHANGED <<sessionVars, deadSignals>>
          ELSE /\ IF deadConfig.emitLogs
                  THEN emitFrustrationEvent("dead_click", event.score,
                                            DeadClickAttributes(event, element))
                  ELSE UNCHANGED sessionVars
               /\ deadSignals' = Append(deadSignals, event)
       /\ UNCHANGED deadConfig

\* DeadClickDetector.recordClick(element, options)
deadRecordClick(element, options) ==
    /\ deadRecordClickCall(element, options)
    /\ UNCHANGED <<now, besidesDeadClick>>

\* DeadClickDetector.enable(); config.document is the page's document
DeadEnableCall ==
    IF AlreadyEnabled(deadEnabled)
    THEN UNCHANGED <<deadListener, listeners>>
    ELSE /\ deadHandler' = NewHandler
         /\ listeners' = AddEventListener("click", NewHandler, TRUE)
         /\ deadEnabled' = TRUE

\* DeadClickDetector.disable()
DeadDisableCall ==
    IF ~deadEnabled \/ deadHandler = 0
    THEN UNCHANGED <<deadListener, listeners>>
    ELSE /\ listeners' = RemoveEventListener("click", deadHandler, TRUE)
         /\ deadHandler' = 0
         /\ deadEnabled' = FALSE

\* the options the click handler of enable() passes to recordClick
HandlerOptions(looksClickable) ==
    [looksClickable |-> looksClickable,
     checkParents |-> IF deadConfig.checkParents THEN "on" ELSE "off"]

DeadRecordClick ==
    /\ lastDeadClick.calls < MaxDeadClicks
    /\ \E element \in DomNodes, options \in ClickOptions :
            deadRecordClick(element, options)

NoDeadClick ==
    [element |-> "none", options |-> [looksClickable |-> FALSE, checkParents |-> "omitted"],
     dead |-> FALSE, calls |-> 0, signalsBefore |-> 0]

----------------------------------------------------------------------------
(* The form tracker *)

HESITATION_THRESHOLD_MS == 10000
LONG_FIELD_TIME_MS == 30000

\* the fields of the form; "" is an attribute that is not there
FormFields ==
    { [ref |-> "email", tagName |-> "INPUT", name |-> "email", id |-> "email-field",
       type |-> "email"],
      [ref |-> "plain", tagName |-> "INPUT", name |-> "", id |-> "", type |-> ""] }

\* hesitationThresholdMs as the caller gives it to the constructor
FormOptions ==
    { [given |-> FALSE, ms |-> 0],
      [given |-> TRUE, ms |-> 2 * HESITATION_THRESHOLD_MS] }

\* the constructor: config.hesitationThresholdMs ?? 10000
FormTrackerConfig(option) ==
    [hesitationThresholdMs |-> IF option.given THEN option.ms ELSE HESITATION_THRESHOLD_MS]

\* getFieldName(element)
getFieldName(element) ==
    IF element.name # "" THEN element.name
    ELSE IF element.id # "" THEN element.id
    ELSE ToLowerCase(element.tagName)

\* getFieldType(element)
getFieldType(element) ==
    IF element.tagName = "INPUT"
    THEN IF element.type # "" THEN element.type ELSE "text"
    ELSE ToLowerCase(element.tagName)

\* the sum of the three terms, in tenths, with no cap on it
SumOfTerms(timeSpentMs, interactionCount, hesitation) ==
    [num |-> (IF hesitation THEN 5 ELSE 0)
                + (IF interactionCount > 2 THEN interactionCount - 2 ELSE 0)
                + (IF timeSpentMs > LONG_FIELD_TIME_MS THEN 2 ELSE 0),
     den |-> 10]

\* the three terms with the interaction term counting from the second
\* interaction on
CountingFromSecond(timeSpentMs, interactionCount, hesitation) ==
    [num |-> Min((IF hesitation THEN 5 ELSE 0)
                    + (IF interactionCount > 1 THEN Min(interactionCount - 1, 3) ELSE 0)
                    + (IF timeSpentMs > LONG_FIELD_TIME_MS THEN 2 ELSE 0),
                 10),
     den |-> 10]

\* calculateFieldFrustration(timeSpentMs, interactionCount, hesitation), in
\* tenths
calculateFieldFrustration(timeSpentMs, interactionCount, hesitation) ==
    [num |-> Min((IF hesitation THEN 5 ELSE 0)
                    + (IF interactionCount > 2 THEN Min(interactionCount - 2, 3) ELSE 0)
                    + (IF timeSpentMs > LONG_FIELD_TIME_MS THEN 2 ELSE 0),
                 10),
     den |-> 10]

\* this.fieldStates.get(fieldName) || { focusTime: null, totalTime: 0, interactionCount: 0 }
FieldStateOf(fieldName) ==
    IF fieldName \in DOMAIN fieldStates THEN fieldStates[fieldName]
    ELSE [focusTime |-> -1, totalTime |-> 0, interactionCount |-> 0]

\* a focus that counts the focus calls on all fields
CountedAcrossFields(state) ==
    [state EXCEPT !.focusTime = now, !.interactionCount = focusCalls + 1]

\* state.focusTime = Date.now(); state.interactionCount++
Focused(state) ==
    [state EXCEPT !.focusTime = now, !.interactionCount = @ + 1]

\* the recordFieldFocus calls on a field key since the last reset
FocusCount(fieldName) ==
    IF fieldName \in DOMAIN focusLog.count THEN focusLog.count[fieldName] ELSE 0

\* recordFieldFocus(element)
recordFieldFocus(element) ==
    LET fieldName == getFieldName(element)
        state == FieldStateOf(fieldName)
    IN /\ focusCalls < MaxFocus
       /\ focusCalls' = focusCalls + 1
       /\ fieldStates' = MapSet(fieldStates, fieldName, Focused(state))
       /\ focusLog' = [focusLog EXCEPT
                            !.count = MapSet(@, fieldName, FocusCount(fieldName) + 1)]
       /\ openFocus' = MapSet(openFocus, fieldName, now)
       /\ focusedKeys' = focusedKeys \cup {fieldName}
       /\ formEvents' = <<>>
       /\ formCalls' = 0
       /\ lastBlur' = "none"
       /\ UNCHANGED <<now, sessionVars, formOption, formConfig, totalFormTime, fieldEvents,
                      eventFocus, besidesForm>>

\* a blur that is never ignored
NeverIgnored(fieldName) == FALSE

\* if (!state || state.focusTime === null) return
BlurIgnored(fieldName) ==
    fieldName \notin DOMAIN fieldStates \/ fieldStates[fieldName].focusTime = -1

\* a threshold that has to be exceeded
HesitatesBeyond(timeSpentMs) == timeSpentMs > formConfig.hesitationThresholdMs

\* timeSpentMs >= this.config.hesitationThresholdMs
Hesitates(timeSpentMs) == timeSpentMs >= formConfig.hesitationThresholdMs

\* a total that the blur leaves as it is
TotalKept(timeSpentMs) == totalFormTime

\* this.totalFormTime += timeSpentMs
TotalAfterBlur(timeSpentMs) == totalFormTime + timeSpentMs

\* a blur that keeps the time of the last stay only
BlurredLastStay(state, timeSpentMs) ==
    [state EXCEPT !.totalTime = timeSpentMs, !.focusTime = -1]

\* state.totalTime += timeSpentMs; state.focusTime = null
Blurred(state, timeSpentMs) ==
    [state EXCEPT !.totalTime = @ + timeSpentMs, !.focusTime = -1]

\* Map.delete(key)
MapDelete(map, key) == [k \in DOMAIN map \ {key} |-> map[k]]

\* recordFieldBlur(element)
recordFieldBlur(element) ==
    LET fieldName == getFieldName(element)
        state == FieldStateOf(fieldName)
        timeSpentMs == now - state.focusTime
        hesitation == Hesitates(timeSpentMs)
        event == [fieldName |-> fieldName,
                  fieldType |-> getFieldType(element),
                  timeSpentMs |-> timeSpentMs,
                  hesitation |-> hesitation,
                  frustrationScore |->
                      calculateFieldFrustration(timeSpentMs, state.interactionCount,
                                                hesitation),
                  interactionCount |-> state.interactionCount,
                  timestamp |-> now]
        wasOpen == fieldName \in DOMAIN openFocus
    IN /\ lastBlur' = IF wasOpen THEN "open" ELSE "closed"
       /\ openFocus' = MapDelete(openFocus, fieldName)
       /\ IF BlurIgnored(fieldName)
          THEN UNCHANGED <<fieldStates, totalFormTime, fieldEvents, formEvents,
                           eventFocus, focusLog, formCalls>>
          ELSE /\ Len(fieldEvents) < MaxFieldEvents
               /\ fieldStates' = MapSet(fieldStates, fieldName,
                                        Blurred(state, timeSpentMs))
               /\ totalFormTime' = TotalAfterBlur(timeSpentMs)
               /\ fieldEvents' = Append(fieldEvents, event)
               /\ eventFocus' = Append(eventFocus,
                                       IF wasOpen THEN openFocus[fieldName] ELSE -1)
               /\ focusLog' = [focusLog EXCEPT
                                    !.atEvent = Append(@, FocusCount(fieldName))]
               /\ formEvents' = <<>>
               /\ formCalls' = 0
       /\ UNCHANGED <<now, sessionVars, formOption, formConfig, focusCalls, focusedKeys,
                      besidesForm>>

\* recordFormSubmit(formName, success, errorMessage); "" is no error message
recordFormSubmit(formName, success, errorMessage) ==
    /\ Len(formEvents) < MaxFormEvents
    /\ formEvents' = Append(formEvents,
            [formName |-> formName, action |-> "submit", success |-> success,
             errorMessage |-> errorMessage, totalTimeMs |-> totalFormTime,
             fieldsInteracted |-> Cardinality(DOMAIN fieldStates), timestamp |-> now])
    /\ formCalls' = formCalls + 1
    /\ lastBlur' = "none"
    /\ UNCHANGED <<now, sessionVars, formOption, formConfig, fieldStates, totalFormTime,
                   fieldEvents, focusCalls, openFocus, eventFocus, focusedKeys,
                   focusLog, besidesForm>>

\* recordFormAbandon(formName); success and errorMessage are not set
recordFormAbandon(formName) ==
    /\ Len(formEvents) < MaxFormEvents
    /\ formEvents' = Append(formEvents,
            [formName |-> formName, action |-> "abandon", success |-> FALSE,
             errorMessage |-> "", totalTimeMs |-> totalFormTime,
             fieldsInteracted |-> Cardinality(DOMAIN fieldStates), timestamp |-> now])
    /\ formCalls' = formCalls + 1
    /\ lastBlur' = "none"
    /\ UNCHANGED <<now, sessionVars, formOption, formConfig, fieldStates, totalFormTime,
                   fieldEvents, focusCalls, openFocus, eventFocus, focusedKeys,
                   focusLog, besidesForm>>

\* reset()
FormReset ==
    /\ fieldStates' = EmptyDoc
    /\ totalFormTime' = 0
    /\ fieldEvents' = <<>>
    /\ formEvents' = <<>>
    /\ openFocus' = EmptyDoc
    /\ eventFocus' = <<>>
    /\ focusedKeys' = {}
    /\ focusLog' = [count |-> EmptyDoc, atEvent |-> <<>>]
    /\ formCalls' = 0
    /\ lastBlur' = "none"
    /\ UNCHANGED <<now, sessionVars, formOption, formConfig, focusCalls, besidesForm>>

RecordFieldFocus == \E element \in FormFields : recordFieldFocus(element)

RecordFieldBlur == \E element \in FormFields : recordFieldBlur(element)

RecordFormSubmit ==
    \E outcome \in {[success |-> TRUE, errorMessage |-> ""],
                    [success |-> FALSE, errorMessage |-> "Invalid email"]} :
        recordFormSubmit("signup", outcome.success, outcome.errorMessage)

RecordFormAbandon == recordFormAbandon("signup")

FormClock ==
    /\ Tick(FormTick, MaxFormTicks * FormTick)
    /\ UNCHANGED <<sessionVars, detectorVars>>

----------------------------------------------------------------------------
(* The pages: what is constructed when the page starts, and what runs *)

\* a rage click detector that is not used on this page
RageIdle ==
    /\ rageConfig = [clickThreshold |-> RAGE_CLICK_THRESHOLD,
                     timeWindowMs |-> RAGE_TIME_WINDOW_MS, emitLogs |-> TRUE]
    /\ clicksByElement = EmptyDoc
    /\ rageSignals = <<>>
    /\ clickHist = [k \in RageKeys |-> <<>>]
    /\ signalClick = <<>>
    /\ rageClicks = 0
    /\ cleaned = EmptyDoc

\* a thrashing detector that is not used on this page
ThrashIdle ==
    /\ thrashConfig = [minDirectionChanges |-> 0, timeWindowMs |-> 0, emitLogs |-> TRUE]
    /\ scrollY = 0
    /\ thrashEnabled = FALSE
    /\ scrollRecords = <<>>
    /\ lastPosition = 0
    /\ lastDirection = "none"
    /\ totalDistance = 0
    /\ thrashSignals = <<>>
    /\ reversals = <<>>
    /\ prevMove = "none"
    /\ signalReversal = <<>>
    /\ lastScrollSignalled = FALSE
    /\ scrollCalls = 0

\* a dead click detector that is not used on this page
DeadIdle ==
    /\ deadConfig = [emitLogs |-> TRUE, checkParents |-> TRUE]
    /\ deadSignals = <<>>
    /\ lastDeadClick = NoDeadClick

NoToggles == [last |-> "none", changes |-> FALSE, standing |-> "none", calls |-> 0]

NoDispatch == [pending |-> {}, called |-> -1, target |-> <<>>]

\* detectors that are constructed and not enabled: no listener is registered
ListenersIdle ==
    /\ listeners = {}
    /\ rageEnabled = FALSE
    /\ clickHandler = 0
    /\ deadEnabled = FALSE
    /\ deadHandler = 0
    /\ scrollHandler = 0
    /\ toggles = NoToggles
    /\ dispatch = NoDispatch

\* calculateScore is not called on its own
ScoreIdle ==
    /\ scoreInput = [clickCount |-> 0, durationMs |-> 0]
    /\ scored = <<>>
    /\ keyInput = <<>>
    /\ keyed = <<>>

\* a navigation tracker as the constructor leaves it, on the start page
NavIdle ==
    /\ navEnabled = FALSE
    /\ currentUrl = ""
    /\ currentTitle = ""
    /\ pageStartTime = 0
    /\ location = "https://app.example/"
    /\ navEvents = <<>>

\* a form tracker that no call was made on
FormHistoryEmpty ==
    /\ openFocus = EmptyDoc
    /\ eventFocus = <<>>
    /\ focusedKeys = {}
    /\ focusLog = [count |-> EmptyDoc, atEvent |-> <<>>]
    /\ formCalls = 0
    /\ lastBlur = "none"

\* a form tracker that is not used on this page
FormIdle ==
    /\ formOption = [given |-> FALSE, ms |-> 0]
    /\ formConfig = FormTrackerConfig(formOption)
    /\ fieldStates = EmptyDoc
    /\ totalFormTime = 0
    /\ fieldEvents = <<>>
    /\ formEvents = <<>>
    /\ focusCalls = 0
    /\ FormHistoryEmpty

\* a page that uses the session and the event emitter
Init ==
    /\ now = 0
    /\ ListenersIdle
    /\ ScoreIdle
    /\ NavIdle
    /\ SessionInit
    /\ RageIdle
    /\ ThrashIdle
    /\ DeadIdle
    /\ FormIdle
    /\ installed = "none"

Next ==
    \/ getSessionId
    \/ getSessionDuration
    \/ getNextSequence
    \/ resetSession
    \/ \E user \in Users : setUser(user)
    \/ clearUser
    \/ EmitEvent
    \/ Reload

Spec == Init /\ [][Next]_vars

\* a page that runs a rage click detector
RageInit ==
    /\ now = 0
    /\ ListenersIdle
    /\ ScoreIdle
    /\ NavIdle
    /\ SessionIdle
    /\ ThrashIdle
    /\ DeadIdle
    /\ FormIdle
    /\ installed = "rage_click"
    /\ rageConfig \in RageConfigs
    /\ clicksByElement = EmptyDoc
    /\ rageSignals = <<>>
    /\ clickHist = [k \in RageKeys |-> <<>>]
    /\ signalClick = <<>>
    /\ rageClicks = 0
    /\ cleaned = EmptyDoc

RageNext ==
    \/ RecordClick
    \/ RageReset
    \/ RageCleanup
    \/ RageClock

RageSpec == RageInit /\ [][RageNext]_vars

\* a detector that is constructed with `config` and not enabled
ThrashConstructed(config) ==
    /\ thrashConfig = config
    /\ scrollY = 0
    /\ thrashEnabled = FALSE
    /\ scrollRecords = <<>>
    /\ lastPosition = 0
    /\ lastDirection = "none"
    /\ totalDistance = 0
    /\ thrashSignals = <<>>
    /\ reversals = <<>>
    /\ prevMove = "none"
    /\ signalReversal = <<>>
    /\ lastScrollSignalled = FALSE
    /\ scrollCalls = 0

\* a page that runs a thrashing detector
ThrashInit ==
    /\ now = 0
    /\ ListenersIdle
    /\ ScoreIdle
    /\ NavIdle
    /\ SessionIdle
    /\ RageIdle
    /\ DeadIdle
    /\ FormIdle
    /\ installed = "thrashing"
    /\ \E config \in ThrashConfigs : ThrashConstructed(config)

ThrashNext ==
    \/ recordScroll
    \/ ThrashingEnable
    \/ ThrashingDisable
    \/ Scroll
    \/ ThrashClock

ThrashSpec == ThrashInit /\ [][ThrashNext]_vars

\* a page that runs a dead click detector
DeadInit ==
    /\ now = 0
    /\ ListenersIdle
    /\ ScoreIdle
    /\ NavIdle
    /\ SessionIdle
    /\ RageIdle
    /\ ThrashIdle
    /\ FormIdle
    /\ installed = "dead_click"
    /\ deadConfig \in DeadConfigs
    /\ deadSignals = <<>>
    /\ lastDeadClick = NoDeadClick

DeadNext == DeadRecordClick

DeadSpec == DeadInit /\ [][DeadNext]_vars

\* a page that runs a form tracker
FormInit ==
    /\ now = 0
    /\ ListenersIdle
    /\ ScoreIdle
    /\ NavIdle
    /\ SessionIdle
    /\ RageIdle
    /\ ThrashIdle
    /\ DeadIdle
    /\ installed = "form"
    /\ formOption \in FormOptions
    /\ formConfig = FormTrackerConfig(formOption)
    /\ fieldStates = EmptyDoc
    /\ totalFormTime = 0
    /\ fieldEvents = <<>>
    /\ formEvents = <<>>
    /\ focusCalls = 0
    /\ FormHistoryEmpty

FormNext ==
    \/ RecordFieldFocus
    \/ RecordFieldBlur
    \/ RecordFormSubmit
    \/ RecordFormAbandon
    \/ FormReset
    \/ FormClock

FormSpec == FormInit /\ [][FormNext]_vars

\* a page that runs one of the detectors
FrustrationInit == RageInit \/ ThrashInit \/ DeadInit \/ FormInit

FrustrationNext ==
    \/ installed = "rage_click" /\ RageNext
    \/ installed = "thrashing" /\ ThrashNext
    \/ installed = "dead_click" /\ DeadNext
    \/ installed = "form" /\ FormNext

FrustrationSpec == FrustrationInit /\ [][FrustrationNext]_vars

\* calculateScore on every click count and duration within the bounds
ScoreInit ==
    /\ now = 0
    /\ SessionIdle
    /\ RageIdle
    /\ ThrashIdle
    /\ DeadIdle
    /\ FormIdle
    /\ ListenersIdle
    /\ installed = "none"
    /\ scoreInput \in [clickCount : 1..MaxScoreClicks, durationMs : 0..MaxScoreDuration]
    /\ scored = <<>>
    /\ keyInput = <<>>
    /\ keyed = <<>>
    /\ NavIdle

ScoreNext == ScoreCall

ScoreSpec == ScoreInit /\ [][ScoreNext]_vars

\* a page that runs a navigation tracker, opened on any of its pages
NavInit ==
    /\ now = 0
    /\ SessionIdle
    /\ RageIdle
    /\ ThrashIdle
    /\ DeadIdle
    /\ FormIdle
    /\ ListenersIdle
    /\ ScoreIdle
    /\ installed = "none"
    /\ navEnabled = FALSE
    /\ currentUrl = ""
    /\ currentTitle = ""
    /\ pageStartTime = 0
    /\ location \in Urls
    /\ navEvents = <<>>

NavNext ==
    \/ NavigationEnable
    \/ NavigationDisable
    \/ RecordNavigation
    \/ recordUnload
    \/ PushState
    \/ Popstate
    \/ NavClock

NavSpec == NavInit /\ [][NavNext]_vars

\* getElementId is called with two elements
KeyInit ==
    /\ now = 0
    /\ SessionIdle
    /\ RageIdle
    /\ ThrashIdle
    /\ DeadIdle
    /\ FormIdle
    /\ ListenersIdle
    /\ installed = "none"
    /\ scoreInput = [clickCount |-> 0, durationMs |-> 0]
    /\ scored = <<>>
    /\ keyInput \in KeyElements \X KeyElements
    /\ keyed = <<>>
    /\ NavIdle

KeyNext == KeyCall

KeySpec == KeyInit /\ [][KeyNext]_vars

\* a page that enables and disables one detector, and whose user clicks and scrolls
ListenerInit == RageInit \/ DeadInit \/ ThrashInit

\* the call counts as one that changes the detector when it is an enable() of a
\* detector whose last such call was not an enable(), or a disable() of one
\* whose last such call was an enable()
Toggled(call) ==
    LET changes == IF call = "enable"
                   THEN toggles.standing # "enable"
                   ELSE toggles.standing = "enable"
    IN [last |-> call, changes |-> changes,
        standing |-> IF changes THEN call ELSE toggles.standing,
        calls |-> toggles.calls + 1]

\* enable() of the page's detector
ListenerEnable ==
    /\ dispatch.pending = {}
    /\ toggles.calls < MaxToggles
    /\ toggles' = Toggled("enable")
    /\ dispatch' = NoDispatch
    /\ \/ /\ installed = "rage_click"
          /\ RageEnableCall
          /\ UNCHANGED <<rageVars, thrashVars, deadVars, deadListener, scrollHandler>>
       \/ /\ installed = "dead_click"
          /\ DeadEnableCall
          /\ UNCHANGED <<rageVars, thrashVars, deadVars, rageListener, scrollHandler>>
       \/ /\ installed = "thrashing"
          /\ ThrashingEnableCall
          /\ UNCHANGED <<rageVars, deadVars, rageListener, deadListener>>
    /\ UNCHANGED <<now, sessionVars, formVars, scoreVars, navVars, installed>>

\* disable() of the page's detector
ListenerDisable ==
    /\ dispatch.pending = {}
    /\ toggles.calls < MaxToggles
    /\ toggles' = Toggled("disable")
    /\ dispatch' = NoDispatch
    /\ \/ /\ installed = "rage_click"
          /\ RageDisableCall
          /\ UNCHANGED <<rageVars, thrashVars, deadVars, deadListener, scrollHandler>>
       \/ /\ installed = "dead_click"
          /\ DeadDisableCall
          /\ UNCHANGED <<rageVars, thrashVars, deadVars, rageListener, scrollHandler>>
       \/ /\ installed = "thrashing"
          /\ ThrashingDisableCall
          /\ UNCHANGED <<rageVars, deadVars, rageListener, deadListener>>
    /\ UNCHANGED <<now, sessionVars, formVars, scoreVars, navVars, installed>>

\* the handlers of the listeners an event of `type` is dispatched to
HandlersFor(type) == { listener.handler : listener \in { l \in listeners : l.type = type } }

\* the user clicks an element: the document dispatches a click event
Click ==
    /\ dispatch.pending = {}
    /\ \/ /\ installed = "rage_click"
          /\ rageClicks < MaxClicks
          /\ \E element \in Elements :
                dispatch' = [pending |-> HandlersFor("click"), called |-> 0,
                             target |-> element]
       \/ /\ installed = "dead_click"
          /\ lastDeadClick.calls < MaxDeadClicks
          /\ \E element \in DomNodes, pointer \in BOOLEAN :
                dispatch' = [pending |-> HandlersFor("click"), called |-> 0,
                             target |-> [element |-> element, pointer |-> pointer]]
    /\ UNCHANGED <<now, sessionVars, rageVars, thrashVars, deadVars, formVars, scoreVars, navVars, listeners,
                   rageListener, deadListener, scrollHandler, toggles, installed>>

\* the user scrolls the page: the window dispatches a scroll event
ScrollEvent ==
    /\ dispatch.pending = {}
    /\ installed = "thrashing"
    /\ scrollCalls < MaxScrolls
    /\ \E position \in 0..MaxScrollY :
        /\ position # scrollY
        /\ scrollY' = position
    /\ dispatch' = [pending |-> HandlersFor("scroll"), called |-> 0, target |-> <<>>]
    /\ UNCHANGED <<now, sessionVars, thrashConfig, thrashEnabled, scrollRecords,
                   lastPosition, lastDirection, totalDistance, thrashSignals,
                   reversals, prevMove, signalReversal, lastScrollSignalled,
                   scrollCalls, rageVars, deadVars, formVars, scoreVars, navVars, listeners,
                   rageListener, deadListener, scrollHandler, toggles, installed>>

\* the event reaches one of the listeners: its handler runs
RunHandler ==
    /\ \E handler \in dispatch.pending :
            dispatch' = [dispatch EXCEPT !.pending = @ \ {handler}, !.called = @ + 1]
    /\ \/ /\ installed = "rage_click"
          /\ recordClickCall(dispatch.target)
          /\ UNCHANGED <<thrashVars, deadVars>>
       \/ /\ installed = "dead_click"
          /\ deadRecordClickCall(dispatch.target.element,
                                 HandlerOptions(dispatch.target.pointer))
          /\ UNCHANGED <<rageVars, thrashVars>>
       \/ /\ installed = "thrashing"
          /\ recordScrollCall
          /\ UNCHANGED <<rageVars, deadVars>>
    /\ UNCHANGED <<now, formVars, scoreVars, navVars, listeners, rageListener, deadListener, scrollHandler,
                   toggles, installed>>

ListenerNext ==
    \/ ListenerEnable
    \/ ListenerDisable
    \/ Click
    \/ ScrollEvent
    \/ RunHandler

ListenerSpec == ListenerInit /\ [][ListenerNext]_vars

----------------------------------------------------------------------------
(* Properties of the session and the event emitter, checked under Spec *)

C2_NeverReused == ~reused

\* C3: the record handed to the exporter carries the session id and the
\* sequence number taken for that call, whatever keys the caller supplies.
C3_RecordCarriesSessionContext ==
    lastRecord # NoRecord =>
        /\ lastRecord.attributes["session.id"] = lastTaken.id
        /\ lastRecord.attributes["session.sequence"] = lastTaken.seq

\* the stored record is absent, is not JSON, has no id or has a sequence that
\* is not a number
StructurallyInvalid(item) ==
    \/ item.kind # "json"
    \/ "id" \notin DOMAIN item.doc
    \/ "sequence" \notin DOMAIN item.doc
    \/ item.doc.sequence.t # "number"

\* the first access of a page lifetime (the step loads or creates the
\* session) created a session with a fresh id and the counter at 0
CreatedFresh ==
    /\ currentSession'.id = nextUuid
    /\ nextUuid' = nextUuid + 1
    /\ \A entry \in issued : entry.id # currentSession'.id
    /\ currentSession'.sequence = instCalls'
    /\ instCalls' > 0 => lastSeq' = 0

\* C21 as stated: on the first access with an absent or structurally invalid
\* stored record a session with a fresh id and sequence 0 is created, and its
\* record replaces the stored one.
C21_FreshSessionReplacesRecord ==
    [][ (~SessionLoaded /\ SessionLoaded' /\ StructurallyInvalid(storage)) =>
            /\ CreatedFresh
            /\ storage' = Stringify(currentSession') ]_vars

\* C21, amended: on the first access with an absent or structurally invalid
\* stored record a session with a fresh id and sequence 0 is created; its
\* record replaces the stored one when the write succeeds, and the stored
\* item stays as it was when the write is swallowed.
C21_FreshSessionReplacesWhenWritten ==
    [][ (~SessionLoaded /\ SessionLoaded' /\ StructurallyInvalid(storage)) =>
            /\ CreatedFresh
            /\ IF persisted' = "written"
               THEN storage' = Stringify(currentSession')
               ELSE storage' = storage ]_vars

\* a session created on first access, at sequence 0, whose record is stored
C21_Witness ==
    /\ SessionLoaded /\ instFresh
    /\ currentSession.id = StoredId + 1
    /\ nextUuid = StoredId + 2
    /\ currentSession.sequence = 0
    /\ instCalls = 0
    /\ persisted = "written"
    /\ storage = Stringify(currentSession)

\* what resetSession() leaves in memory: a session with an id that was never
\* used, the counter at 0 and no user
DiscardedByReset ==
    /\ SessionLoaded'
    /\ currentSession'.id # currentSession.id
    /\ currentSession'.id # StoredId
    /\ \A entry \in issued : entry.id # currentSession'.id
    /\ currentSession'.sequence = 0
    /\ ~HasUser(currentSession')
    /\ \A f \in OptionalFields : currentSession'[f] = Undefined

\* C22 as stated: after resetSession(), whatever the session was, the id is a
\* new one, the counter is at 0, there is no user, and the persisted record
\* is the new session.
C22_ResetDiscardsAndPersists ==
    [][ resetSession =>
            /\ DiscardedByReset
            /\ storage' = Stringify(currentSession') ]_vars

\* C22, amended: after resetSession(), whatever the session was, the id is a
\* new one, the counter is at 0 and there is no user; the persisted record
\* is the new session when the write succeeds, and stays what it was when
\* the write is swallowed.
C22_ResetDiscardsSession ==
    [][ resetSession =>
            /\ DiscardedByReset
            /\ IF persisted' = "written"
               THEN storage' = Stringify(currentSession')
               ELSE storage' = storage ]_vars

\* the stored session had a user and issued sequence numbers; after a reset
\* the session is a new one at 0 without user, and it is what is stored
C22_Witness ==
    /\ SessionLoaded /\ instFresh
    /\ \E entry \in issued : entry.id = StoredId
    /\ currentSession.id # StoredId
    /\ currentSession.sequence = 0
    /\ ~HasUser(currentSession)
    /\ persisted = "written"
    /\ storage = Stringify(currentSession)

\* the step is an emitSessionEvent() call with the caller's `attributes`
\* whose record reached the exporter
Emitted(attributes) ==
    /\ \E mode \in StorageOutcomes :
            emitSessionEvent("user.click", attributes, mode, TRUE)
    /\ UNCHANGED <<now, detectorVars>>

\* the record has no user.id but the one the caller may have supplied
NoUserIdFromSession(sent, attributes) ==
    "user.id" \in DOMAIN sent =>
        /\ "user.id" \in DOMAIN filterUndefined(attributes)
        /\ sent["user.id"] = attributes.vals["user.id"]

\* C23 as stated (the identity is the one the session has when the record is
\* built; the call itself may load the session): an event emitted while the
\* session has the identity of a setUser(u) carries user.id = u.id whatever the caller's attributes are;
\* an event emitted while no identity is set gets no user.id from the session.
C23_EventsCarryIdentity ==
    [][ \A attributes \in CallerAttributes :
            Emitted(attributes) =>
                IF identity' # Undefined
                THEN /\ "user.id" \in DOMAIN lastRecord'.attributes
                     /\ lastRecord'.attributes["user.id"] = identity'
                ELSE NoUserIdFromSession(lastRecord'.attributes, attributes) ]_vars

\* C23, amended: that holds for a setUser(u) whose u.id is not the empty
\* string; after setUser(u) with an empty id the events get no user.id from
\* the session, as when no identity is set.
C23_EventsCarryNonEmptyIdentity ==
    [][ \A attributes \in CallerAttributes :
            Emitted(attributes) =>
                IF identity' # Undefined /\ identity' # ""
                THEN /\ "user.id" \in DOMAIN lastRecord'.attributes
                     /\ lastRecord'.attributes["user.id"] = identity'
                ELSE NoUserIdFromSession(lastRecord'.attributes, attributes) ]_vars

\* an event whose caller supplied a user.id of its own was emitted after
\* setUser: the record carries the id of the user that was set
C23_Witness ==
    /\ SessionLoaded
    /\ identity = "u2"
    /\ lastRecord # NoRecord
    /\ lastTaken = [id |-> currentSession.id, seq |-> currentSession.sequence - 1]
    /\ "event.category" \notin DOMAIN lastRecord.attributes
    /\ lastRecord.attributes["user.id"] = "u2"

\* C18: within a page lifetime (the session is in memory before and after the
\* step) only resetSession replaces the session id: getSessionId,
\* getSessionDuration, getNextSequence, setUser, clearUser and event emission
\* leave it as it is; and setUser and clearUser leave the sequence counter of
\* the session they work on as it is.
C18_OnlyResetReplacesId ==
    [][ /\ (SessionLoaded /\ SessionLoaded' /\ currentSession'.id # currentSession.id) =>
                resetSession
        /\ (\A mode \in StorageOutcomes :
                    currentSession'.sequence # GetSession(mode).sequence) =>
                ~((\E user \in Users : setUser(user)) \/ clearUser) ]_vars

\* the session loaded from the stored record, after a setUser and a
\* getNextSequence call: still the stored id
C18_Witness ==
    /\ SessionLoaded /\ ~instFresh
    /\ currentSession.id = StoredId
    /\ currentSession.userId = "u2"
    /\ instCalls >= 1

\* C19: in a step whose persistSession() call was swallowed (setItem threw),
\* the call works on the in-memory session: the id stays unless the call is
\* resetSession; getNextSequence returns the in-memory counter and advances
\* it by one, so consecutive calls return consecutive values; every other
\* call leaves the counter as it is.
C19_InMemoryAuthoritative ==
    [][ (SessionLoaded /\ SessionLoaded' /\ persisted' = "swallowed") =>
            /\ resetSession \/ currentSession'.id = currentSession.id
            /\ IF instCalls' = instCalls + 1
               THEN /\ lastSeq' = currentSession.sequence
                    /\ currentSession'.sequence = currentSession.sequence + 1
               ELSE resetSession \/ currentSession'.sequence = currentSession.sequence
      ]_vars

\* nothing was ever written to the storage, a user was set, and two
\* getNextSequence calls returned consecutive values
C19_Witness ==
    /\ SessionLoaded
    /\ persisted = "swallowed"
    /\ storage = AbsentItem
    /\ currentSession.userId = "u2"
    /\ instCalls = 2
    /\ lastSeq = 1

\* C20: when the last persistSession() call of the page wrote the record,
\* dropping the in-memory session and loading the stored record yields the
\* same id and the same sequence value.
C20_RoundTrip ==
    (SessionLoaded /\ persisted = "written") =>
        /\ LoadsStored("ok")
        /\ LoadOrCreateSession("ok").id = currentSession.id
        /\ LoadOrCreateSession("ok").sequence = currentSession.sequence

\* a session created on this page, advanced and written, and loaded again
\* after a reload with its id and its counter
C20_Witness ==
    /\ SessionLoaded /\ ~instFresh
    /\ persisted = "written"
    /\ currentSession.id # StoredId
    /\ currentSession.sequence >= 1
    /\ instCalls = 0

\* C37: each emitSessionEvent call advances the sequence counter of the
\* session by exactly one, also when the exporter's emit throws, and the
\* number taken by a failed emit is not given to a later event.
C37_FailedEmitKeepsItsNumber ==
    [][EmitEvent =>
            /\ currentSession'.sequence = lastSeq' + 1
            /\ [id |-> currentSession'.id, seq |-> lastSeq'] \notin lost]_vars

----------------------------------------------------------------------------
(* Properties of the rage click detector, checked under RageSpec *)

\* of the first i clicks on a target, those made within the window of click i
InWindowCount(hist, i) ==
    Cardinality({j \in 1..i : hist[j] >= hist[i] - rageConfig.timeWindowMs})

\* the events emitted at click i of the target
SignalsAt(key, i) ==
    {n \in 1..Len(signalClick) : signalClick[n] = [key |-> key, at |-> i]}

\* the events emitted for the target
SignalsOf(key) == {n \in 1..Len(signalClick) : signalClick[n].key = key}

\* C5: with threshold N and window W, recordClick emits nothing while fewer
\* than N clicks on the target lie within W ms, and at the first click that
\* makes N clicks lie within W ms it emits exactly one event, with
\* clickCount = N.
C5_FirstThresholdClick ==
    \A key \in RageKeys :
        LET hist == clickHist[key]
            N == rageConfig.clickThreshold
        IN \A i \in 1..Len(hist) :
            /\ InWindowCount(hist, i) < N => SignalsAt(key, i) = {}
            /\ (InWindowCount(hist, i) >= N
                    /\ \A j \in 1..(i - 1) : InWindowCount(hist, j) < N) =>
                /\ Cardinality(SignalsAt(key, i)) = 1
                /\ \A n \in SignalsAt(key, i) : rageSignals[n].clickCount = N

\* the default detector: three clicks in the window gave one event with
\* clickCount 3, at the third click
C5_Witness ==
    /\ rageConfig.clickThreshold = RAGE_CLICK_THRESHOLD
    /\ \E key \in RageKeys :
        /\ Len(clickHist[key]) = 3
        /\ clickHist[key][3] - clickHist[key][1] = RAGE_TIME_WINDOW_MS
        /\ SignalsOf(key) # {}
        /\ \A n \in SignalsOf(key) : signalClick[n].at = 3 /\ rageSignals[n].clickCount = 3

\* C6: while all clicks made on a target lie in one window, the target has
\* emitted one event per N clicks, at clicks N, 2N, ..., each with
\* clickCount = N; so k*N clicks give k events and 2N - 1 clicks give one.
C6_BurstSignals ==
    \A key \in RageKeys :
        LET hist == clickHist[key]
            N == rageConfig.clickThreshold
        IN (hist # <<>> /\ hist[Len(hist)] - hist[1] <= rageConfig.timeWindowMs) =>
            /\ Cardinality(SignalsOf(key)) = Len(hist) \div N
            /\ \A n \in SignalsOf(key) :
                /\ rageSignals[n].clickCount = N
                /\ signalClick[n].at % N = 0

\* the default detector after a burst of six clicks in one window: two events
C6_Witness ==
    /\ rageConfig.clickThreshold = RAGE_CLICK_THRESHOLD
    /\ \E key \in RageKeys :
        /\ Len(clickHist[key]) = 6
        /\ clickHist[key][6] - clickHist[key][1] <= RAGE_TIME_WINDOW_MS
        /\ clickHist[key][6] > clickHist[key][1]
        /\ Cardinality(SignalsOf(key)) = 2

\* the index of the last event of the target before click i, 0 when none
LastSignalBefore(key, i) ==
    LET earlier == {signalClick[n].at : n \in {m \in SignalsOf(key) : signalClick[m].at < i}}
    IN IF earlier = {} THEN 0 ELSE CHOOSE a \in earlier : \A b \in earlier : b <= a

\* C7: an event is emitted at a click only if the N most recent clicks on the
\* target since its last event or reset lie within timeWindowMs of it; every
\* event has durationMs <= timeWindowMs; clicks each made more than
\* timeWindowMs after the previous one never emit an event (N >= 2).
C7_OnlyWithinWindow ==
    LET N == rageConfig.clickThreshold
        W == rageConfig.timeWindowMs
    IN /\ \A n \in 1..Len(rageSignals) :
            LET hist == clickHist[signalClick[n].key]
                i == signalClick[n].at
            IN /\ rageSignals[n].durationMs <= W
               /\ i - LastSignalBefore(signalClick[n].key, i) >= N
               /\ hist[i] - hist[i - N + 1] <= W
       /\ \A key \in RageKeys :
            (N >= 2 /\ \A i \in 2..Len(clickHist[key]) :
                            clickHist[key][i] - clickHist[key][i - 1] > W)
                => SignalsOf(key) = {}

\* an event whose clicks span the whole window, on a target that had clicks
\* leave the window before
C7_Witness ==
    \E n \in 1..Len(rageSignals) :
        /\ rageSignals[n].durationMs = rageConfig.timeWindowMs
        /\ rageConfig.clickThreshold >= 2
        /\ signalClick[n].at > rageConfig.clickThreshold
        /\ LastSignalBefore(signalClick[n].key, signalClick[n].at) = 0

\* the elements of a sequence
Range(seq) == { seq[i] : i \in 1..Len(seq) }

\* the click list the detector keeps for a target
ClickListOf(target) == ClicksOf(getElementId(target))

\* C24: a recordClick on a target leaves the click list of every other
\* target as it was, and a signal it emits counts clicks on that target only.
C24_OtherTargetsUntouched ==
    [][ \A element \in Elements :
            recordClick(element) =>
                /\ \A other \in Elements \ {element} :
                        ClickListOf(other)' = ClickListOf(other)
                /\ Len(rageSignals') > Len(rageSignals) =>
                        \A click \in Range(ClicksInWindow(element)) :
                            click.element = element.ref ]_vars

\* no signal is emitted by the step: no event for the callback, no log
\* record, no sequence number taken
NoRageSignal ==
    /\ Len(rageSignals') <= Len(rageSignals)
    /\ UNCHANGED <<lastRecord, currentSession, issued>>

\* C32: after cleanup() no per-target list holds an entry older than
\* timeWindowMs and no empty list remains; after reset() no click history
\* remains, so that every signal since has clickThreshold clicks made after
\* the reset behind it; neither operation emits a signal.
C32_CleanupAndResetPurge ==
    /\ [](\A n \in 1..Len(signalClick) : signalClick[n].at >= rageConfig.clickThreshold)
    /\ [][RageCleanup =>
            /\ \A key \in DOMAIN clicksByElement' :
                    /\ clicksByElement'[key] # <<>>
                    /\ \A click \in Range(clicksByElement'[key]) :
                            now - click.timestamp <= rageConfig.timeWindowMs
            /\ NoRageSignal]_vars
    /\ [][RageReset =>
            /\ \A element \in Elements : ClickListOf(element)' = <<>>
            /\ DOMAIN clicksByElement' = {}
            /\ NoRageSignal]_vars

\* a cleanup() has deleted the stale list of one target and left the clicks
\* of another that are still in the window
C32_Witness ==
    /\ \E key \in DOMAIN cleaned :
            /\ key \notin DOMAIN clicksByElement
            /\ cleaned[key] = Len(clickHist[key])
    /\ \E key \in DOMAIN clicksByElement : clicksByElement[key] # <<>>

\* C34: after every recordClick each target's click list holds fewer than
\* clickThreshold entries, and every rage_click signal reports clickCount
\* equal to clickThreshold, never more.
C34_ListsBelowThreshold ==
    /\ \A key \in DOMAIN clicksByElement :
            Len(clicksByElement[key]) < rageConfig.clickThreshold
    /\ \A n \in 1..Len(rageSignals) :
            rageSignals[n].clickCount = rageConfig.clickThreshold

\* five clicks on one target with threshold 2: two signals of two clicks and
\* one click left in the list
C34_Witness ==
    /\ rageConfig.clickThreshold = 2
    /\ \E key \in DOMAIN clicksByElement :
            /\ Len(clickHist[key]) = 5
            /\ Cardinality(SignalsOf(key)) = 2
            /\ Len(clicksByElement[key]) = 1

\* the click times of `times` that a list keeps at `cutoff`
RECURSIVE TimesFrom(_, _)
TimesFrom(times, cutoff) ==
    IF times # <<>> /\ Head(times) < cutoff THEN TimesFrom(Tail(times), cutoff)
    ELSE times

\* the signals a detector that is never cleaned up emits for the clicks
\* hist[i], hist[i + 1], ... on one target, holding the click times `list`
RECURSIVE Replay(_, _, _)
Replay(hist, i, list) ==
    IF i > Len(hist) THEN {}
    ELSE LET kept == TimesFrom(Append(list, hist[i]), hist[i] - rageConfig.timeWindowMs)
         IN IF Len(kept) >= rageConfig.clickThreshold
            THEN {[at |-> i, clickCount |-> Len(kept),
                   durationMs |-> kept[Len(kept)] - kept[1]]}
                    \cup Replay(hist, i + 1, <<>>)
            ELSE Replay(hist, i + 1, kept)

\* C36: under a non-decreasing clock, cleanup() calls at arbitrary points of
\* a sequence of recordClick calls change no emitted signal: the signals of
\* every target are those the same clicks give without any cleanup(), at
\* the same clicks, with the same clickCount and durationMs.
C36_CleanupChangesNoSignal ==
    \A key \in RageKeys :
        /\ { [at |-> signalClick[n].at, clickCount |-> rageSignals[n].clickCount,
              durationMs |-> rageSignals[n].durationMs] : n \in SignalsOf(key) }
                = Replay(clickHist[key], 1, <<>>)
        /\ \A m, n \in SignalsOf(key) : signalClick[m].at = signalClick[n].at => m = n

\* a signal that counts clicks made before a cleanup() that shortened the
\* list of its target, and clicks made after it
C36_Witness ==
    \E n \in 1..Len(signalClick) :
        /\ signalClick[n].key \in DOMAIN cleaned
        /\ signalClick[n].at > cleaned[signalClick[n].key]
        /\ signalClick[n].at - rageSignals[n].clickCount + 1 <= cleaned[signalClick[n].key]

\* C24, amended: a recordClick on an element changes only the click list of
\* that element's key (its id, else its tag and classes) and can emit a
\* signal only for that key: the list of every other key is unchanged.
\* Elements that share a key are one target.
C24_OtherKeysUntouched ==
    [][ \A element \in Elements :
            recordClick(element) =>
                /\ \A key \in RageKeys \ {getElementId(element)} :
                        /\ ClicksOf(key)' = ClicksOf(key)
                        /\ clickHist'[key] = clickHist[key]
                /\ Len(rageSignals') > Len(rageSignals) =>
                        /\ Len(rageSignals') = Len(rageSignals) + 1
                        /\ rageSignals'[Len(rageSignals')].elementId = getElementId(element)
                        /\ signalClick'[Len(signalClick')].key = getElementId(element) ]_vars

\* one list holds clicks on two elements that share a key, while the list
\* of another key holds a click
C24_Witness ==
    \E key \in DOMAIN clicksByElement :
        /\ \E first, second \in Range(clicksByElement[key]) :
                first.element # second.element
        /\ \E other \in DOMAIN clicksByElement \ {key} : clicksByElement[other] # <<>>

----------------------------------------------------------------------------
(* The key of a click list, under KeySpec *)

\* the classes of an element: the parts of className that are not empty
ClassList(element) ==
    [i \in 1..Cardinality({j \in 1..Len(element.className) : element.className[j] # ""}) |->
        LET at == CHOOSE j \in 1..Len(element.className) :
                    /\ element.className[j] # ""
                    /\ Cardinality({m \in 1..j : element.className[m] # ""}) = i
        IN element.className[at]]

\* the same non-empty id, or no id and the same tag and class list
SameIdOrSameFallback(first, second) ==
    \/ first.id # <<>> /\ first.id = second.id
    \/ /\ first.id = <<>> /\ second.id = <<>>
       /\ first.tagName = second.tagName
       /\ ClassList(first) = ClassList(second)

\* C40: clicks on two elements are counted in the same rage-click list (the
\* elements have the same key) only when they have the same non-empty id, or
\* both have no id and the same tag and class list; an element that has an
\* id never shares a list with an element that has none.
C40_SharedListOnlyForSameIdentity ==
    (keyed # <<>> /\ keyed[1] = keyed[2]) =>
        SameIdOrSameFallback(keyInput[1], keyInput[2])

----------------------------------------------------------------------------
(* The score of a rage click, under ScoreSpec *)

\* round(0.4 * min(count / 10, 1) + 0.6 * min(v / 10, 1), 2) in hundredths,
\* with v = count / durationMs * 1000, and v = 10 when durationMs = 0
RoundedFormula(count, durationMs) ==
    LET countTenths == IF count < 10 THEN count ELSE 10
    IN IF durationMs = 0 \/ 100 * count >= durationMs
       THEN 4 * countTenths + 60
       ELSE (2 * (4 * countTenths * durationMs + 6000 * count) + durationMs)
                \div (2 * durationMs)

\* C25: the score calculateScore returns for a count and a duration is the
\* rounded formula, and a duration one millisecond longer does not give a
\* higher score.
C25_ScoreIsRoundedFormula ==
    scored # <<>> =>
        /\ scored[1].den = 100
        /\ scored[1].num = RoundedFormula(scoreInput.clickCount, scoreInput.durationMs)
        /\ calculateScore(scoreInput.clickCount, scoreInput.durationMs + 1).num
                <= scored[1].num

----------------------------------------------------------------------------
(* The thrashing detector's signals, under ThrashSpec *)

\* the reversal that set off signal k, and the one that set off the signal
\* before it (0 when there is none)
ReversalOf(k) == signalReversal[k]
ReversalBefore(k) == IF k = 1 THEN 0 ELSE signalReversal[k - 1]

\* the true reversals since enable() all lie within one time window
FourReversalsInWindow ==
    /\ thrashConfig = DefaultThrashConfig
    /\ Len(reversals) = 4
    /\ reversals[4] - reversals[1] < timeWindow

\* C8: with the default configuration, a scroll sequence with 4 direction
\* reversals within the time window has emitted exactly one thrashing signal,
\* with directionChanges >= 3, and a sequence of scroll observations that all
\* move in the same direction has emitted no signal.
C8_FourReversalsOneSignal ==
    /\ FourReversalsInWindow =>
          /\ Len(thrashSignals) = 1
          /\ thrashSignals[1].directionChanges >= 3
    /\ reversals = <<>> => thrashSignals = <<>>

C8_Witness ==
    /\ FourReversalsInWindow
    /\ Len(thrashSignals) = 1
    /\ scrollCalls = 5

\* C9: when recordScroll has emitted a thrashing signal, the detector state
\* is fully reset when it returns: no direction-change records, totalDistance
\* 0 and no lastDirection.
C9_FullyResetAfterSignal ==
    lastScrollSignalled =>
        /\ scrollRecords = <<>>
        /\ totalDistance = 0
        /\ lastDirection = "none"

\* C10: a thrashing signal is emitted only when minDirectionChanges direction
\* changes all occurred less than timeWindowMs before the triggering scroll;
\* a direction change older than the window is not counted, and every signal
\* has durationMs < timeWindowMs.
C10_OnlyWithinWindow ==
    \A k \in 1..Len(thrashSignals) :
        LET signal == thrashSignals[k]
            last == ReversalOf(k)
            counted == { j \in (ReversalBefore(k) + 1)..last :
                            signal.timestamp - reversals[j] < timeWindow }
        IN /\ last >= ReversalBefore(k) + minChanges
           /\ reversals[last] = signal.timestamp
           /\ \A j \in (last - minChanges + 1)..last :
                 signal.timestamp - reversals[j] < timeWindow
           /\ signal.directionChanges = Cardinality(counted)
           /\ signal.directionChanges >= minChanges
           /\ signal.durationMs < timeWindow

\* a signal whose burst began with a direction change that had left the window
C10_Witness ==
    \E k \in 1..Len(thrashSignals) :
        /\ thrashSignals[k].directionChanges < ReversalOf(k) - ReversalBefore(k)
        /\ thrashSignals[k].durationMs < timeWindow

\* every direction-change record the detector holds has aged out of the window
WindowExpired ==
    /\ scrollRecords # <<>>
    /\ \A k \in 1..Len(scrollRecords) : now - scrollRecords[k].timestamp >= timeWindow

\* a recordScroll call that sees movement
ScrollObserved == recordScroll /\ thrashEnabled /\ scrollY # lastPosition

\* C28: totalDistance and lastDirection are reset when the rolling window
\* expires: the first scroll observed after every direction-change record has
\* aged out of timeWindowMs is not compared with the old direction (it
\* records no direction change), and the distance counted towards a later
\* signal holds no movement made before it.
C28_WindowExpiryResets ==
    [][(ScrollObserved /\ WindowExpired) =>
            /\ scrollRecords' = <<>>
            /\ totalDistance' <= (IF scrollY < lastPosition THEN lastPosition - scrollY
                                  ELSE scrollY - lastPosition)]_vars

\* the scroll direction changes since enable() that lie within `window`
\* milliseconds before signal k, the one that set it off included
ReversalsBefore(k, window) ==
    { j \in 1..ReversalOf(k) : thrashSignals[k].timestamp - reversals[j] < window }

\* C29: with the default configuration a thrashing signal is emitted only
\* after at least 4 scroll direction changes within 2 seconds.
C29_FourChangesInTwoSeconds ==
    thrashConfig = DefaultThrashConfig =>
        \A k \in 1..Len(thrashSignals) :
            /\ Cardinality(ReversalsBefore(k, 2000)) >= 4
            /\ thrashSignals[k].directionChanges >= 4

\* C35: every thrashing signal reports directionChanges equal to
\* minDirectionChanges (3 when none is given), so that its score
\* min(1, directionChanges / (2 * minDirectionChanges)) is 0.5.
C35_ExactlyMinChanges ==
    \A k \in 1..Len(thrashSignals) :
        /\ thrashSignals[k].directionChanges =
                (IF thrashConfig.minDirectionChanges > 0
                 THEN thrashConfig.minDirectionChanges ELSE 3)
        /\ 2 * thrashSignals[k].score.num = thrashSignals[k].score.den

\* two signals in a row of a detector that asks for two direction changes
C35_Witness ==
    /\ thrashConfig.minDirectionChanges = 2
    /\ Len(thrashSignals) = 2
    /\ thrashSignals[2].directionChanges = 2

\* the detector holds no records, no distance and no direction
ThrashingCleared ==
    /\ scrollRecords = <<>>
    /\ totalDistance = 0
    /\ lastDirection = "none"

\* C39: recordScroll on a detector that is not enabled changes no state and
\* emits nothing; disable() clears records, distance and direction, and
\* enable() takes the current scroll position as the new baseline; a
\* detector that is not enabled holds nothing that a later signal could count.
C39_DisabledDetectorIsInert ==
    /\ [](~thrashEnabled => ThrashingCleared)
    /\ [][(recordScroll /\ ~thrashEnabled) =>
                UNCHANGED <<thrashVars, sessionVars>>]_vars
    /\ [][ThrashingDisable => (ThrashingCleared' /\ ~thrashEnabled')]_vars
    /\ [][ThrashingEnable =>
                (ThrashingCleared' /\ thrashEnabled' /\ lastPosition' = scrollY)]_vars

\* a detector that saw scrolling, was disabled, and is not at the position
\* the page has scrolled to since
C39_Witness ==
    /\ ~thrashEnabled
    /\ scrollCalls >= 2
    /\ scrollY # lastPosition
    /\ ThrashingCleared

----------------------------------------------------------------------------
(* The scores of all detectors, under FrustrationSpec *)

\* a score between 0 and 1
InUnitInterval(score) == score.den > 0 /\ 0 <= score.num /\ score.num <= score.den

\* C4: every signal a detector emits has 0 <= score <= 1: the rage_click,
\* dead_click and thrashing signals and the form field events, also as the
\* frustration.score attribute of the log record emitted with a signal.
C4_ScoresInUnitInterval ==
    /\ \A k \in 1..Len(rageSignals) : InUnitInterval(rageSignals[k].score)
    /\ \A k \in 1..Len(deadSignals) : InUnitInterval(deadSignals[k].score)
    /\ \A k \in 1..Len(thrashSignals) : InUnitInterval(thrashSignals[k].score)
    /\ \A k \in 1..Len(fieldEvents) : InUnitInterval(fieldEvents[k].frustrationScore)
    /\ "frustration.score" \in DOMAIN lastRecord.attributes =>
            InUnitInterval(lastRecord.attributes["frustration.score"])

\* a field event with hesitation, a long stay and more focuses than the
\* interaction term counts: the terms add up to more than 1, the score is 1
C4_Witness ==
    \E k \in 1..Len(fieldEvents) :
        /\ fieldEvents[k].hesitation
        /\ fieldEvents[k].timeSpentMs > LONG_FIELD_TIME_MS
        /\ fieldEvents[k].interactionCount - 2 > 3
        /\ fieldEvents[k].frustrationScore = [num |-> 10, den |-> 10]

----------------------------------------------------------------------------
(* The dead click detector's signals, under DeadSpec *)

\* the element of the last recordClick call and what the call emitted
ClickedNode == NodeOf(lastDeadClick.element)
DeadClicked == lastDeadClick.calls > 0
TraversalOn ==
    \/ lastDeadClick.options.checkParents = "on"
    \/ lastDeadClick.options.checkParents = "omitted" /\ deadConfig.checkParents
SignalsOfLastClick ==
    SubSeq(deadSignals, lastDeadClick.signalsBefore + 1, Len(deadSignals))

\* the ancestors of a node: its parentElement, that one's parentElement, ...
RECURSIVE AncestorsOf(_)
AncestorsOf(node) ==
    IF node.parent = "none" THEN {}
    ELSE {NodeOf(node.parent)} \cup AncestorsOf(NodeOf(node.parent))

InteractiveAncestor(node) ==
    \E ancestor \in AncestorsOf(node) : isInteractiveElement(ancestor)

DisabledButtonClicked ==
    /\ DeadClicked
    /\ ClickedNode.tagName = "BUTTON"
    /\ ClickedNode.disabled

OneDisabledSignal ==
    /\ Len(SignalsOfLastClick) = 1
    /\ SignalsOfLastClick[1].element = ClickedNode.ref
    /\ SignalsOfLastClick[1].reason = "disabled"

\* C11 as stated: a click on a <button> with the disabled attribute emits a
\* dead_click signal with reason 'disabled', with parent traversal on or off
\* and whatever the ancestors of the button are.
C11_DisabledButtonAlwaysSignals == DisabledButtonClicked => OneDisabledSignal

\* C11, amended: a click on a disabled <button> emits one dead_click signal
\* with reason 'disabled' when parent traversal is off or none of its
\* ancestors is interactive; with traversal on and an interactive ancestor
\* it emits no signal.
C11_DisabledButtonSignals ==
    DisabledButtonClicked =>
        IF TraversalOn /\ InteractiveAncestor(ClickedNode)
        THEN SignalsOfLastClick = <<>>
        ELSE OneDisabledSignal

\* a disabled button inside an interactive ancestor, clicked with traversal
\* off: the signal is emitted
C11_Witness ==
    /\ DisabledButtonClicked
    /\ ~TraversalOn
    /\ InteractiveAncestor(ClickedNode)
    /\ OneDisabledSignal

\* the criteria of the classifier, for an element that is not disabled
InteractiveByCriteria(node) ==
    \/ node.tagName \in {"BUTTON", "INPUT", "SELECT", "TEXTAREA", "SUMMARY", "DETAILS"}
    \/ node.tagName = "A" /\ node.href
    \/ RoleToLowerCase(node.role) \in INTERACTIVE_ROLES
    \/ node.tabindex
    \/ node.handlers # {}

\* C12: for an element without the disabled attribute, isInteractiveElement
\* returns true exactly when at least one criterion holds (interactive tag,
\* anchor with href, role of the fixed set, tabindex, inline handler), also
\* for an anchor without href; seen at a click examined without traversal.
C12_InteractiveIffCriterion ==
    (DeadClicked /\ ~TraversalOn /\ ~ClickedNode.disabled) =>
        (SignalsOfLastClick = <<>> <=> InteractiveByCriteria(ClickedNode))

\* C13: with parent traversal on, recordClick emits no signal when the
\* clicked element or one of its ancestors is interactive and exactly one
\* when none is; with traversal off only the clicked element is examined.
C13_TraversalDecidesSignal ==
    DeadClicked =>
        LET interactive ==
                \/ isInteractiveElement(ClickedNode)
                \/ TraversalOn /\ InteractiveAncestor(ClickedNode)
        IN IF interactive THEN SignalsOfLastClick = <<>>
           ELSE /\ Len(SignalsOfLastClick) = 1
                /\ SignalsOfLastClick[1].element = ClickedNode.ref

\* a click on a plain element inside an interactive one, with traversal on
C13_Witness ==
    /\ DeadClicked
    /\ TraversalOn
    /\ ~isInteractiveElement(ClickedNode)
    /\ InteractiveAncestor(ClickedNode)
    /\ SignalsOfLastClick = <<>>

\* the reason the attributes of one element give
ReasonByElement(node) ==
    CASE node.disabled -> "disabled"
      [] ~node.disabled /\ node.tagName = "A" /\ ~node.href -> "no_href"
      [] OTHER -> "non_interactive"

\* C26: the reason of every dead_click signal is 'disabled' if the clicked
\* element has the disabled attribute, otherwise 'no_href' if it is an anchor
\* without href, otherwise 'non_interactive'; the signal is about the clicked
\* element and its reason follows from that element alone, also when the
\* ancestors were traversed.
C26_ReasonOfClickedElement ==
    /\ \A k \in 1..Len(deadSignals) :
            deadSignals[k].reason = ReasonByElement(NodeOf(deadSignals[k].element))
    /\ \A k \in 1..Len(SignalsOfLastClick) :
            SignalsOfLastClick[k].element = lastDeadClick.element

\* with traversal on, a click on a disabled anchor without href gave
\* 'disabled', after a click on a plain element inside a disabled button
\* gave 'non_interactive'
C26_Witness ==
    /\ DeadClicked
    /\ TraversalOn
    /\ ClickedNode.disabled /\ ClickedNode.tagName = "A" /\ ~ClickedNode.href
    /\ Len(SignalsOfLastClick) = 1
    /\ SignalsOfLastClick[1].reason = "disabled"
    /\ \E k \in 1..lastDeadClick.signalsBefore :
            /\ NodeOf(deadSignals[k].element).parent # "none"
            /\ NodeOf(NodeOf(deadSignals[k].element).parent).disabled
            /\ deadSignals[k].reason = "non_interactive"

\* the score the flag and the reason give, in tenths
ScoreByFlagAndReason(looksClickable, reason) ==
    CASE looksClickable -> 7
      [] ~looksClickable /\ reason = "disabled" -> 5
      [] ~looksClickable /\ reason = "no_href" -> 6
      [] ~looksClickable /\ reason = "non_interactive" -> 3

----------------------------------------------------------------------------
(* The score of a field event, under FormSpec *)

\* the terms of the score of a field event, in tenths
HesitationTerm(event) == IF event.hesitation THEN 5 ELSE 0
InteractionTerm(event) ==
    CASE event.interactionCount <= 2 -> 0
      [] event.interactionCount \in 3..4 -> event.interactionCount - 2
      [] event.interactionCount >= 5 -> 3
LongStayTerm(event) == IF event.timeSpentMs > 30000 THEN 2 ELSE 0

\* C30: the frustrationScore of a field event is min(1, a + b + c) with
\* a = 0.5 if hesitation, b = min((interactionCount - 2) * 0.1, 0.3) if
\* interactionCount > 2, and c = 0.2 if timeSpentMs > 30000, each 0 otherwise.
C30_FieldScoreIsCappedSum ==
    \A k \in 1..Len(fieldEvents) :
        LET sum == HesitationTerm(fieldEvents[k]) + InteractionTerm(fieldEvents[k])
                       + LongStayTerm(fieldEvents[k])
        IN /\ fieldEvents[k].frustrationScore.den = 10
           /\ fieldEvents[k].frustrationScore.num = (IF sum > 10 THEN 10 ELSE sum)

\* a field event of a third interaction, with hesitation and a stay that is
\* not long: 0.5 + 0.1
C30_Witness ==
    \E k \in 1..Len(fieldEvents) :
        /\ fieldEvents[k].hesitation
        /\ fieldEvents[k].interactionCount = 3
        /\ fieldEvents[k].timeSpentMs <= 30000
        /\ fieldEvents[k].frustrationScore = [num |-> 6, den |-> 10]

----------------------------------------------------------------------------
(* The listeners of the detectors, under ListenerSpec *)

\* the handler the page's detector holds (0: none)
HeldHandler ==
    CASE installed = "rage_click" -> clickHandler
      [] installed = "dead_click" -> deadHandler
      [] installed = "thrashing" -> scrollHandler
      [] OTHER -> 0

\* C17: whatever enable() and disable() calls were made, the detector has at
\* most one listener registered; it has one exactly when the last call that
\* changed it was an enable(), and that listener is the one the detector
\* holds, so that a repeated enable() registers nothing, a disable() removes
\* what enable() registered and a disable() before any enable() changes
\* nothing; and one click or scroll runs at most one handler.
C17_OneListenerWhileEnabled ==
    /\ Cardinality(listeners) <= 1
    /\ (listeners # {}) <=> (toggles.standing = "enable")
    /\ \A listener \in listeners : listener.handler = HeldHandler
    /\ dispatch.called <= 1

\* enable() was called again on an enabled detector, and the click or scroll
\* after it ran one handler
C17_Witness ==
    /\ toggles.last = "enable"
    /\ ~toggles.changes
    /\ Cardinality(listeners) = 1
    /\ dispatch.called = 1
    /\ dispatch.pending = {}

----------------------------------------------------------------------------
(* The form tracker's events, under FormSpec *)

\* C14: recordFieldBlur on a field with no open focus (never focused, or
\* blurred since its last focus) is a no-op: no field event is emitted, and
\* the field states and the form total time are unchanged.
C14_BlurWithoutFocusIsNoOp ==
    [][lastBlur' = "closed" =>
            UNCHANGED <<fieldStates, totalFormTime, fieldEvents, eventFocus>>]_vars

\* a blur of a field that an earlier blur had closed
C14_Witness ==
    /\ lastBlur = "closed"
    /\ fieldEvents # <<>>
    /\ \E k \in 1..Len(fieldEvents) : fieldEvents[k].fieldName \notin DOMAIN openFocus

\* the threshold in force: the option, 10000 when none is given
ThresholdInForce ==
    IF formOption.given THEN formOption.ms ELSE HESITATION_THRESHOLD_MS

\* C15: every field event has hesitation = true exactly when timeSpentMs >=
\* hesitationThresholdMs (default 10000), where timeSpentMs is the time from
\* the open focus of the field to the blur; when hesitation is true,
\* frustrationScore >= 0.5.
C15_HesitationAtThreshold ==
    \A k \in 1..Len(fieldEvents) :
        LET event == fieldEvents[k]
        IN /\ eventFocus[k] >= 0
           /\ event.timeSpentMs = event.timestamp - eventFocus[k]
           /\ event.hesitation <=> event.timeSpentMs >= ThresholdInForce
           /\ event.hesitation =>
                2 * event.frustrationScore.num >= event.frustrationScore.den

\* a blur right at a threshold that was given, and so with hesitation
C15_Witness ==
    \E k \in 1..Len(fieldEvents) :
        /\ formOption.given
        /\ fieldEvents[k].timeSpentMs = formOption.ms
        /\ fieldEvents[k].hesitation

RECURSIVE SumTimeSpent(_)
SumTimeSpent(events) ==
    IF events = <<>> THEN 0
    ELSE Head(events).timeSpentMs + SumTimeSpent(Tail(events))

\* C16: recordFormSubmit and recordFormAbandon each emit one form event; its
\* totalTimeMs is the sum of timeSpentMs over the field events emitted since
\* the last reset, its fieldsInteracted the number of distinct field keys
\* focused since the last reset.
C16_FormEventTotals ==
    /\ Len(formEvents) = formCalls
    /\ \A k \in 1..Len(formEvents) :
          /\ formEvents[k].totalTimeMs = SumTimeSpent(fieldEvents)
          /\ formEvents[k].fieldsInteracted = Cardinality(focusedKeys)

\* a form event after two field events on two fields that took time
C16_Witness ==
    /\ formEvents # <<>>
    /\ Len(fieldEvents) = 2
    /\ fieldEvents[1].timeSpentMs > 0
    /\ fieldEvents[2].timeSpentMs > 0
    /\ Cardinality(focusedKeys) = 2

\* C31: the interactionCount of a field event equals the number of
\* recordFieldFocus calls made on its field key since the last reset; focus
\* and blur of other fields do not change it, and the tracker holds that
\* number for every field key it knows.
C31_InteractionCountPerField ==
    /\ Len(focusLog.atEvent) = Len(fieldEvents)
    /\ \A k \in 1..Len(fieldEvents) :
            fieldEvents[k].interactionCount = focusLog.atEvent[k]
    /\ DOMAIN fieldStates = DOMAIN focusLog.count
    /\ \A key \in DOMAIN fieldStates :
            fieldStates[key].interactionCount = focusLog.count[key]

\* a field event of the second focus of a field, emitted when another field
\* had been focused more often
C31_Witness ==
    \E k \in 1..Len(fieldEvents) :
        /\ fieldEvents[k].interactionCount = 2
        /\ \E key \in DOMAIN focusLog.count :
                /\ key # fieldEvents[k].fieldName
                /\ focusLog.count[key] > 2

\* the sum of the per-field total times
RECURSIVE SumTotalTime(_)
SumTotalTime(keys) ==
    IF keys = {} THEN 0
    ELSE LET key == CHOOSE k \in keys : TRUE
         IN fieldStates[key].totalTime + SumTotalTime(keys \ {key})

\* C38: in every reachable state of a FormTracker, the form total time
\* equals the sum of the per-field total times.
C38_TotalIsSumOfFields == totalFormTime = SumTotalTime(DOMAIN fieldStates)

\* two fields that each took time in two stays
C38_Witness ==
    /\ Cardinality(DOMAIN fieldStates) = 2
    /\ \A key \in DOMAIN fieldStates :
            /\ fieldStates[key].totalTime > 0
            /\ fieldStates[key].interactionCount >= 2
            /\ fieldStates[key].focusTime = -1
    /\ totalFormTime > 0

----------------------------------------------------------------------------
(* The navigation tracker, under NavSpec *)

\* the events that start a page: page_load and route_change
StartsPage(event) == event.type \in {"page_load", "route_change"}

\* the last event before the k-th one that starts a page, 0 if there is none
PrecedingPage(k) ==
    LET earlier == {p \in 1..(k - 1) : StartsPage(navEvents[p])}
    IN IF earlier = {} THEN 0 ELSE CHOOSE p \in earlier : \A q \in earlier : q <= p

\* C33: every route_change event of a NavigationTracker has a preceding
\* page_load or route_change event, its fromUrl is the toUrl of the last such
\* event, and its durationMs is the time elapsed since that event, over any
\* sequence of recordNavigation calls, popstate events, unloads, disables
\* and enables.
C33_RouteChangeContinuesPage ==
    \A k \in 1..Len(navEvents) :
        navEvents[k].type = "route_change" =>
            /\ PrecedingPage(k) # 0
            /\ navEvents[k].fromUrl = navEvents[PrecedingPage(k)].toUrl
            /\ navEvents[k].durationMs =
                    navEvents[k].timestamp - navEvents[PrecedingPage(k)].timestamp

\* a page load, then two route changes that each came some time after the
\* page before them, the second from the page the first led to
C33_Witness ==
    /\ Len(navEvents) >= 3
    /\ \E k \in 2..(Len(navEvents) - 1) :
            /\ navEvents[k].type = "route_change"
            /\ navEvents[k].durationMs > 0
            /\ navEvents[k + 1].type = "route_change"
            /\ navEvents[k + 1].durationMs > 0
            /\ navEvents[k + 1].durationMs # navEvents[k + 1].timestamp
            /\ navEvents[k + 1].fromUrl = navEvents[k].toUrl
            /\ navEvents[k + 1].fromUrl # navEvents[1].toUrl

============================================================================
